---- MODULE Spec2Model ----
(***************************************************************************)
(* Model of the InfluxQL -> PromQL dashboard converter.                    *)
(*                                                                         *)
(*   src/common/influx_detection.py        the datasource classifier       *)
(*   src/converter/influxql_to_promql/influxql_to_promql_dashboard_        *)
(*       converter.py                      target / panel / dashboard      *)
(*   src/main.py                           convert_dashboards (the run)    *)
(*   src/common/error_manager.py           the error sink                  *)
(*                                                                         *)
(* Strings the code takes apart are sequences of tokens: a datasource UID  *)
(* "${InfluxUid}" is <<"$", "{", "InfluxUid", "}">>, a metric name         *)
(* "net_bytes_recv" is <<"net", "_", "bytes", "_", "recv">>.  A token is   *)
(* either a word (no separator inside) or one separator character.         *)
(***************************************************************************)
EXTENDS Integers, Sequences, FiniteSets, TLC

VARIABLES
    pc,                 \* where the run is: "idle" (convert_dashboards between two
                        \* dashboards), "panels", "templating", "backfill" (inside
                        \* convert_dashboard), "finished", "exited" (exit(1))
    family,             \* which family of input documents this run draws from
    n,                  \* number of dashboards convert_dashboards has started
    cur,                \* the dashboard being converted, as mutated so far
    todo,               \* its panels not yet visited, in document order
    pn,                 \* number of panels of cur visited so far
    stage,              \* milestone of cur: NotStarted, PanelsConverted,
                        \* TemplatingConverted, Done, Invalid, Aborted
    inputs,             \* titles of the dashboards started, in order
    influx_dashboards,  \* main.py: the converted output list (dashboard ordinals)
    invalid_dashboards, \* main.py: titles of the invalid dashboards
    metric_to_objects,  \* self.metric_to_objects
    _get_rep_metric,    \* self._get_rep_metric
    group_by_labels,    \* self.group_by_labels (<<>> is None or [])
    _current_dashboard, \* self._current_dashboard
    errors,             \* ErrorManager._conversion_errors
    context,            \* ErrorManager.context: [dashboard, panel]
    last,               \* the last call of convert_panel: its argument and outcome
    det,                \* SpecDetect: one call of is_target_influx and its outcome
    qc                  \* SpecQuery: one target, and what convert_to_query and
                        \* convert_query make of it

vars == <<pc, family, n, cur, todo, pn, stage, inputs, influx_dashboards,
          invalid_dashboards, metric_to_objects, _get_rep_metric, group_by_labels,
          _current_dashboard, errors, context, last, det, qc>>

runVars == <<pc, family, n, cur, todo, pn, stage, inputs, influx_dashboards,
             invalid_dashboards, metric_to_objects, _get_rep_metric, group_by_labels,
             _current_dashboard, errors, context, last>>

----------------------------------------------------------------------------
(* Sequence helpers *)

RECURSIVE FilterOut(_, _)
\* str.replace(c, "") for every token c of drop
FilterOut(s, drop) ==
    IF s = <<>> THEN <<>>
    ELSE IF Head(s) \in drop THEN FilterOut(Tail(s), drop)
         ELSE <<Head(s)>> \o FilterOut(Tail(s), drop)

----------------------------------------------------------------------------
(* Datasource references                                                   *)
(* kind "absent": the key is missing; "null": JSON null; "str": a legacy   *)
(* datasource given as a string (kept in uid); "dict": {type?, uid?}.      *)

DsAbsent == [kind |-> "absent", hasType |-> FALSE, type |-> "", hasUid |-> FALSE, uid |-> <<>>]
DsNull == [kind |-> "null", hasType |-> FALSE, type |-> "", hasUid |-> FALSE, uid |-> <<>>]
DsStr(s) == [kind |-> "str", hasType |-> FALSE, type |-> "", hasUid |-> FALSE, uid |-> s]
DsDict(t, u) == [kind |-> "dict", hasType |-> TRUE, type |-> t, hasUid |-> TRUE, uid |-> u]
DsType(t) == [kind |-> "dict", hasType |-> TRUE, type |-> t, hasUid |-> FALSE, uid |-> <<>>]
DsUid(u) == [kind |-> "dict", hasType |-> FALSE, type |-> "", hasUid |-> TRUE, uid |-> u]

\* global_shared_state["grafana_datasources"]: uid -> {type, name, jsonData.version}
\* (the registry of the detector's own test fixture)
grafana_datasources ==
    { [uid |-> <<"InfluxUid">>, type |-> "influxdb", name |-> <<"InfluxDatasource">>, version |-> ""],
      [uid |-> <<"FluxUid">>, type |-> "influxdb", name |-> <<"FluxDatasource">>, version |-> "Flux"],
      [uid |-> <<"OtherUid">>, type |-> "prometheus", name |-> <<"PrometheusDatasource">>, version |-> ""] }

\* A template variable's query text.  shape "text" is any text no pattern of
\* convert_templating matches (tag holds it); the other shapes are the
\* discovery queries and, after conversion, the label_values(...) call.
TextQuery(s) == [shape |-> "text", tag |-> s, key |-> <<>>]

\* normalize_target_uid raises TypeError on `"uid" in None`
normalize_target_uid_raises(ds) == ds.kind = "null"

normalize_target_uid(ds) ==
    IF ds.kind = "dict" /\ ds.hasUid THEN FilterOut(ds.uid, {"$", "{", "}"})
    ELSE IF ds.kind = "str" THEN FilterOut(ds.uid, {"$", "{", "}"})
    ELSE <<>>

_basic_ds_type_check(dsType) == dsType = "influxdb"

_influxdb_datasource_type(dsType, ds) ==
    \/ _basic_ds_type_check(dsType)
    \/ (ds.kind = "dict" /\ ds.hasType /\ ds.type = "influxdb")

_influxdb_like_by_uid(uid) ==
    \E d \in grafana_datasources :
        d.uid = uid /\ d.type = "influxdb" /\ d.version # "Flux"

_influxdb_like_by_ds_name(name) ==
    \E d \in grafana_datasources :
        d.name = name /\ d.type = "influxdb" /\ d.version # "Flux"

\* templating is the dashboard's "templating" object: a sequence of variables
_uid_matches_influx_templating(ds, templating) ==
    \E i \in 1..Len(templating) :
        /\ templating[i].name = normalize_target_uid(ds)
        /\ templating[i].type = "datasource"
        /\ templating[i].query = TextQuery(<<"influxdb">>)

\* the four signals of one datasource reference (lines 55-61)
InfluxSignals(dsType, ds, templating) ==
    \/ _influxdb_datasource_type(dsType, ds)
    \/ _influxdb_like_by_uid(normalize_target_uid(ds))
    \/ _uid_matches_influx_templating(ds, templating)
    \/ (ds.kind = "str" /\ _influxdb_like_by_ds_name(ds.uid))
    \/ _influxdb_like_by_ds_name(normalize_target_uid(ds))

\* panel_datasource is truthy: not None and not an empty dict / empty string
PanelDsGiven(pd) ==
    /\ pd.kind \in {"str", "dict"}
    /\ (pd.kind = "str" => pd.uid # <<>>)
    /\ (pd.kind = "dict" => (pd.hasType \/ pd.hasUid))

is_target_influx_raises(dsType, ds, templating, pd) ==
    normalize_target_uid_raises(ds)

is_target_influx(dsType, ds, templating, pd) ==
    \/ InfluxSignals(dsType, ds, templating)
    \/ (PanelDsGiven(pd) /\ InfluxSignals("", pd, templating))


----------------------------------------------------------------------------
(* Durations: a window token "5m" is W(5, "m"); the dynamic placeholders   *)
(* "$__interval", "$__range", "$__rate_interval" are W(0, <placeholder>).  *)

SCRAPE_INTERVAL_SECONDS == 30

W(num, u) == [n |-> num, unit |-> u]
NoWindow == W(0, "")

\* _duration_to_seconds: "ok", or the exception it raises.  "5ms" ends with
\* "s" and int("5m") raises ValueError; a unit outside s/m/h/d/w reaches the
\* final raise NotImplementedError.
_duration_to_seconds_status(w) ==
    IF w.unit \in {"s", "m", "h", "d", "w"} THEN "ok"
    ELSE IF w.unit = "ms" THEN "ValueError"
    ELSE "NotImplementedError"

_duration_to_seconds(w) ==
    CASE w.unit = "s" -> w.n
      [] w.unit = "m" -> w.n * 60
      [] w.unit = "h" -> w.n * 3600
      [] w.unit = "d" -> w.n * 86400
      [] w.unit = "w" -> w.n * 86400 * 7
      [] OTHER -> 0

_seconds_to_duration(seconds) ==
    LET mins == seconds \div 60 IN
    IF seconds % 60 # 0 \/ mins = 0 THEN W(seconds, "s")
    ELSE LET hours == mins \div 60 IN
         IF mins % 60 # 0 \/ hours = 0 THEN W(mins, "m")
         ELSE W(hours, "h")

----------------------------------------------------------------------------
(* Names *)

INVALID_PROMQL_METRIC_CHARACTERS == {".", "-", " ", "%"}

_replace_invalid_metric_characters(metric) ==
    [i \in 1..Len(metric) |->
        IF metric[i] \in INVALID_PROMQL_METRIC_CHARACTERS THEN "_" ELSE metric[i]]

\* the same replacement on a legend, a sequence of name-like pieces
_replace_invalid_metric_characters_legend(legend) ==
    [i \in 1..Len(legend) |-> _replace_invalid_metric_characters(legend[i])]

\* [\w.]+ : at least one token, every token a word, "_" or "."
IsWordDots(name) ==
    /\ name # <<>>
    /\ \A i \in 1..Len(name) : name[i] \notin {"-", " ", "%", "/", "$", "(", ")"}

AGGREGATION_MAP ==
    [count |-> "count", max |-> "max", min |-> "min", median |-> "avg",
     mean |-> "avg", non_negative_derivative |-> "rate",
     non_negative_difference |-> "increase", percentile |-> "avg",
     stddev |-> "stddev", sum |-> "sum", last |-> "avg",
     moving_average |-> "avg", derivative |-> "rate", difference |-> "delta"]

OVER_TIME_AGGREGATIONS ==
    {"avg", "min", "max", "sum", "quantile", "stddev", "stdvar", "count"}

----------------------------------------------------------------------------
(* Targets.  One record type for a source target (kind "influx": a         *)
(* structured or raw-query target as it stands in the dashboard JSON) and  *)
(* for a converted target (kind "prom": the dict convert_query builds).    *)
(* flag is the key 'not-influx-target': "absent" or "true".                *)

\* The text of an InfluxQL query, by its parts:
\*   SELECT fns[1](fns[2](... "field" ...)) mods FROM "measurement"
\*   WHERE tags GROUP BY time(window), groupTags fill(fills)
\* A tag is one condition of the WHERE clause, [key, op, value, numeric,
\* condition]: value is a token sequence (for =~ and !~ the text between the
\* slashes), numeric tells that the value is written without quotes as a
\* number or word, condition is the "AND" / "OR" a structured target joins
\* the tag with ("" in a query text).  orGroup holds the quoted equalities
\* "key"='value' that the text joins with " OR ", orParen tells whether that
\* group stands in parentheses.  A text with sub is
\*   SELECT outerFn("k") FROM ( SELECT fns("field") FROM "measurement"
\*   WHERE tags GROUP BY ... ) GROUP BY time(window), groupTags
NoQuery ==
    [fns |-> <<>>, field |-> <<>>, mods |-> <<>>, measurement |-> <<>>,
     hasWhere |-> FALSE, tags |-> <<>>, window |-> NoWindow, groupTags |-> <<>>,
     fills |-> <<>>, divSelf |-> FALSE, hasOr |-> FALSE,
     diamond |-> FALSE, star |-> FALSE, sub |-> FALSE,
     orGroup |-> <<>>, orParen |-> FALSE, outerFn |-> ""]

Tag(key, op, value, numeric, condition) ==
    [key |-> key, op |-> op, value |-> value, numeric |-> numeric, condition |-> condition]

RECURSIVE JoinAlt(_)
\* "|".join(values)
JoinAlt(values) ==
    IF values = <<>> THEN <<>>
    ELSE IF Len(values) = 1 THEN values[1]
    ELSE values[1] \o <<"|">> \o JoinAlt(Tail(values))

NoExpr == <<>>

BlankTarget ==
    [kind |-> "influx", refId |-> "A", flag |-> "absent", dsType |-> "",
     datasource |-> DsAbsent, rawQuery |-> FALSE, query |-> NoQuery,
     measurement |-> <<>>, hasSelect |-> FALSE, select |-> <<>>,
     groupBy |-> <<>>, tags |-> <<>>, alias |-> <<>>, resultFormat |-> "time_series",
     hasHide |-> FALSE, hide |-> FALSE,
     expr |-> NoExpr, instant |-> FALSE, intervalFactor |-> 0, legendFormat |-> <<>>]

\* A value returned or an exception raised.  status is "ok" or the name of
\* the exception class.
Ok(v) == [status |-> "ok", value |-> v]
Raise(e) == [status |-> e, value |-> <<>>]

\* sorted(select, key=lambda x: x["type"].lower()): a stable sort by type
SelectTypeOrder ==
    <<"alias", "count", "derivative", "difference", "distinct", "field", "last",
      "math", "max", "mean", "median", "min", "moving_average",
      "non_negative_derivative", "non_negative_difference", "percentile",
      "stddev", "sum">>

RECURSIVE SortedByType(_, _)
SortedByType(row, k) ==
    IF k > Len(SelectTypeOrder) THEN <<>>
    ELSE SelectSeq(row, LAMBDA it : it.type = SelectTypeOrder[k]) \o SortedByType(row, k + 1)

KnownItemType(t) == \E k \in 1..Len(SelectTypeOrder) : SelectTypeOrder[k] = t

RECURSIVE FlattenRows(_)
\* the items of every select row, each row sorted, in the order the two
\* nested loops of convert_to_query visit them
FlattenRows(select) ==
    IF select = <<>> THEN <<>>
    ELSE SortedByType(Head(select), 1) \o FlattenRows(Tail(select))

RECURSIVE SelectFold(_, _)
\* the loop body of lines 849-877 over the visited items; acc is
\* [value, fns, arg, has (select_what != ""), mods, distinct, bad]
SelectFold(items, acc) ==
    IF items = <<>> \/ acc.bad THEN acc
    ELSE LET it == Head(items) IN
         SelectFold(Tail(items),
            IF it.type = "field" THEN [acc EXCEPT !.value = it.param]
            ELSE IF it.type = "math" THEN [acc EXCEPT !.mods = @ \o <<it.param>>]
            ELSE IF it.type \in DOMAIN AGGREGATION_MAP THEN
                IF acc.has THEN [acc EXCEPT !.fns = <<it.type>> \o @]
                ELSE IF it.type \notin {"max", "last"}
                     THEN [acc EXCEPT !.fns = <<it.type>>, !.arg = acc.value, !.has = TRUE]
                     ELSE acc
            ELSE IF it.type = "alias" THEN acc
            ELSE IF it.type = "distinct" THEN [acc EXCEPT !.distinct = @ + 1]
            ELSE [acc EXCEPT !.bad = TRUE])

\* the GROUP BY items convert_to_query writes: "ok" or "ValueError"
GroupByKnown(groupBy) ==
    \A i \in 1..Len(groupBy) : groupBy[i].type \in {"time", "tag", "fill"}

GroupByWindow(groupBy) ==
    LET times == SelectSeq(groupBy, LAMBDA g : g.type = "time") IN
    IF times = <<>> THEN NoWindow ELSE times[Len(times)].window

GroupByTags(groupBy) ==
    LET tags == SelectSeq(groupBy, LAMBDA g : g.type = "tag") IN
    [i \in 1..Len(tags) |-> tags[i].name]

AnyOr(tags) == \E i \in 1..Len(tags) : tags[i].condition = "OR"

SameKey(tags) == \A i, j \in 1..Len(tags) : tags[i].key = tags[j].key

AllOperator(tags, op) == \A i \in 1..Len(tags) : tags[i].op = op

StartsWith(v, tok) == v # <<>> /\ Head(v) = tok

EndsWith(v, tok) == v # <<>> /\ v[Len(v)] = tok

\* lines 913-917: the regex of an OR tag without its start boundary
StartCleaned(v) == IF StartsWith(v, "^") THEN Tail(v) ELSE <<".*">> \o v

\* lines 910-924
CleanedUpRegex(v) ==
    IF EndsWith(StartCleaned(v), "$")
    THEN SubSeq(StartCleaned(v), 1, Len(StartCleaned(v)) - 1)
    ELSE StartCleaned(v) \o <<".*">>

\* lines 926-944: the errors recorded when only some of the regexes of an OR
\* group carry a boundary
BoundaryErrors(tags) ==
    LET ends == {i \in 1..Len(tags) : EndsWith(StartCleaned(tags[i].value), "$")}
        starts == {i \in 1..Len(tags) : StartsWith(tags[i].value, "^")}
    IN IF AnyOr(tags) /\ SameKey(tags) /\ ~AllOperator(tags, "=") /\ AllOperator(tags, "=~")
       THEN (IF ends # {} /\ ends # 1..Len(tags)
             THEN <<[level |-> "INFO", msg |-> "End boundaries are different"]>> ELSE <<>>)
            \o (IF starts # {} /\ starts # 1..Len(tags)
                THEN <<[level |-> "INFO", msg |-> "Start boundaries are different"]>> ELSE <<>>)
       ELSE <<>>

\* lines 881-974: the conditions convert_to_query writes after $timeFilter,
\* Ok(tags of the text) or ValueError.  An OR group of one key becomes one
\* regex condition "key"=~/^v1|v2$/.
WhereItems(tags) ==
    IF AnyOr(tags)
    THEN IF ~SameKey(tags) THEN [status |-> "ValueError", value |-> <<>>]
         ELSE IF AllOperator(tags, "=")
         THEN [status |-> "ok",
               value |-> <<Tag(tags[1].key, "=~",
                              <<"^">> \o JoinAlt([i \in 1..Len(tags) |-> tags[i].value]) \o <<"$">>,
                              FALSE, "")>>]
         ELSE IF AllOperator(tags, "=~")
         THEN [status |-> "ok",
               value |-> <<Tag(tags[1].key, "=~",
                              <<"^", "(">>
                              \o JoinAlt([i \in 1..Len(tags) |-> CleanedUpRegex(tags[i].value)])
                              \o <<")", "$">>,
                              FALSE, "")>>]
         ELSE [status |-> "ValueError", value |-> <<>>]
    ELSE [status |-> "ok",
          value |-> [i \in 1..Len(tags) |->
                       [tags[i] EXCEPT !.op = IF @ = "<>" THEN "!=" ELSE @,
                                       !.condition = ""]]]

\* convert_to_query(target, legend): the query text built from a structured
\* target.  Ok(query) | Ok("not-influx-target" tuple, marked by tuple) |
\* Raise("ValueError").  distinct counts the add_error calls of line 873,
\* boundary holds the errors of lines 933 and 941.
convert_to_query(target) ==
    IF target.flag = "true"
    THEN [status |-> "ok", tuple |-> TRUE, value |-> NoQuery, distinct |-> 0, boundary |-> <<>>]
    ELSE IF ~target.hasSelect
    THEN [status |-> "ValueError", tuple |-> FALSE, value |-> NoQuery, distinct |-> 0, boundary |-> <<>>]
    ELSE
      LET acc == SelectFold(FlattenRows(target.select),
                    [value |-> <<>>, fns |-> <<>>, arg |-> <<>>, has |-> FALSE,
                     mods |-> <<>>, distinct |-> 0, bad |-> FALSE])
          q == [NoQuery EXCEPT
                  !.fns = acc.fns,
                  !.field = IF acc.has THEN acc.arg ELSE acc.value,
                  !.mods = acc.mods,
                  !.measurement = target.measurement,
                  !.hasWhere = TRUE,
                  !.tags = WhereItems(target.tags).value,
                  !.window = GroupByWindow(target.groupBy),
                  !.groupTags = GroupByTags(target.groupBy)]
      IN IF acc.bad
         THEN [status |-> "ValueError", tuple |-> FALSE, value |-> NoQuery,
               distinct |-> acc.distinct, boundary |-> <<>>]
         ELSE IF WhereItems(target.tags).status # "ok"
         THEN [status |-> "ValueError", tuple |-> FALSE, value |-> NoQuery,
               distinct |-> acc.distinct, boundary |-> <<>>]
         ELSE IF ~GroupByKnown(target.groupBy) \/ target.measurement = <<>>
         THEN [status |-> "ValueError", tuple |-> FALSE, value |-> NoQuery,
               distinct |-> acc.distinct, boundary |-> BoundaryErrors(target.tags)]
         ELSE [status |-> "ok", tuple |-> FALSE, value |-> q,
               distinct |-> acc.distinct, boundary |-> BoundaryErrors(target.tags)]

----------------------------------------------------------------------------
(* Query text -> expression *)

RECURSIVE HasPrefix(_, _)
HasPrefix(s, p) ==
    IF p = <<>> THEN TRUE
    ELSE IF s = <<>> THEN FALSE
    ELSE Head(s) = Head(p) /\ HasPrefix(Tail(s), Tail(p))

RECURSIVE HasSub(_, _)
HasSub(s, p) ==
    IF HasPrefix(s, p) THEN TRUE
    ELSE IF s = <<>> THEN FALSE
    ELSE HasSub(Tail(s), p)

HasSuffix(s, p) ==
    /\ Len(p) <= Len(s)
    /\ SubSeq(s, Len(s) - Len(p) + 1, Len(s)) = p

\* METRIC_AGGREGATION_REGEXPS, tried in order with re.match
get_metric_aggregation(metric_name) ==
    IF \/ HasSub(metric_name, <<"_", "remaining", "_", "value">>)
       \/ HasSub(metric_name, <<"_", "remaining", "_", "percent", "_", "value">>)
       \/ HasPrefix(metric_name, <<"disk", "_", "free">>)
       \/ HasPrefix(metric_name, <<"swap", "_", "free">>)
       \/ HasPrefix(metric_name, <<"mem", "_", "available">>)
    THEN "min"
    ELSE IF \/ HasSub(metric_name, <<"_", "error", "_", "value">>)
            \/ HasSub(metric_name, <<"_", "size", "_", "value">>)
            \/ HasSuffix(metric_name, <<"_", "size">>)
            \/ HasPrefix(metric_name, <<"disk", "_", "used">>)
    THEN "max"
    ELSE "avg"

\* the candidates of the second regex of get_metric_name, in text order:
\* the SELECT argument, the measurement, the tag keys
RECURSIVE FirstWordDots(_)
FirstWordDots(cands) ==
    IF cands = <<>> THEN <<>>
    ELSE IF IsWordDots(Head(cands)) THEN Head(cands)
    ELSE FirstWordDots(Tail(cands))

\* get_metric_name(query): Ok(<<series, field>>) or ValueError
get_metric_name(q) ==
    LET field == FirstWordDots(<<q.field, q.measurement>>
                               \o [i \in 1..Len(q.tags) |-> q.tags[i].key]) IN
    IF ~q.hasWhere \/ q.measurement = <<>>
       \/ (\E i \in 1..Len(q.measurement) : q.measurement[i] = " ")
    THEN Raise("ValueError")
    ELSE IF field = <<>> THEN Raise("ValueError")
    ELSE Ok(<<q.measurement, field>>)

RECURSIVE AfterLastDot(_)
\* series_name.split(".")[-1]
AfterLastDot(name) ==
    IF \E i \in 1..Len(name) : name[i] = "." THEN AfterLastDot(Tail(name))
    ELSE name

DotsToUnderscore(name) ==
    [i \in 1..Len(name) |-> IF name[i] = "." THEN "_" ELSE name[i]]

\* get_aggregations
get_aggregations(q) ==
    LET known == SelectSeq(q.fns, LAMBDA f : f \in DOMAIN AGGREGATION_MAP) IN
    [i \in 1..Len(known) |-> AGGREGATION_MAP[known[i]]]

\* lines 513-532: re.sub replaces the OR group by one regex label.  Its
\* pattern wants the group in parentheses and has no white space between two
\* repetitions of the OR part, so it matches a group of two equalities only;
\* _replace unifies the group when both have one key.
OrUnified(q) ==
    /\ q.orParen
    /\ Len(q.orGroup) = 2
    /\ q.orGroup[1].key = q.orGroup[2].key

\* " OR " in query, asked of the text get_labels returns
OrInQuery(q) == q.hasOr \/ (Len(q.orGroup) >= 2 /\ ~OrUnified(q))

\* lines 550-557: an InfluxQL regex, which searches, as a Prometheus regex,
\* which matches the whole value
RegexToProm(v) ==
    LET a == IF StartsWith(v, "^") THEN Tail(v)
             ELSE IF StartsWith(v, ".*") THEN v ELSE <<".*">> \o v
    IN IF EndsWith(a, "$") THEN SubSeq(a, 1, Len(a) - 1)
       ELSE IF EndsWith(a, ".*") THEN a ELSE a \o <<".*">>

\* lines 534-594: the label one condition of the text makes
LabelOf(t) ==
    IF t.op \in {"=~", "!~"}
    THEN [key |-> [i \in 1..Len(t.key) |-> IF t.key[i] = "-" THEN "_" ELSE t.key[i]],
          op |-> t.op, value |-> RegexToProm(t.value)]
    ELSE [key |-> t.key, op |-> t.op, value |-> t.value]

\* get_labels: the label set; a condition on the selected field is skipped
get_labels(q, field_name) ==
    (IF OrUnified(q)
     THEN {[key |-> q.orGroup[1].key, op |-> "=~",
            value |-> JoinAlt([i \in 1..Len(q.orGroup) |-> q.orGroup[i].value])]}
     ELSE {[key |-> q.orGroup[i].key, op |-> "=", value |-> q.orGroup[i].value] :
             i \in {j \in 1..Len(q.orGroup) : q.orGroup[j].key # field_name}})
    \cup
    { LabelOf(q.tags[i]) :
        i \in {j \in 1..Len(q.tags) :
                 /\ q.tags[j].op \in {"=", "!=", "=~", "!~"}
                 /\ LabelOf(q.tags[j]).key # field_name} }

\* get_modifications: the regex finds one numeric operation right before FROM
get_modifications(q) == IF Len(q.mods) = 1 THEN q.mods ELSE <<>>

\* get_group_by: None when the text has no GROUP BY
HasGroupBy(q) == q.window # NoWindow \/ q.groupTags # <<>> \/ q.fills # <<>>

\* get_conditions, value comparisons in the order of LABEL_CONDITIONS_OPERATORS
CondOps == <<"<", ">", "<=", ">=", "=">>

RECURSIVE CondsByOp(_, _, _)
CondsByOp(tags, field_name, k) ==
    IF k > Len(CondOps) THEN <<>>
    ELSE LET mine == SelectSeq(tags, LAMBDA t : t.op = CondOps[k] /\ t.numeric /\ t.key = field_name)
         IN [i \in 1..Len(mine) |->
                [op |-> IF CondOps[k] = "=" THEN "==" ELSE CondOps[k],
                 value |-> mine[i].value, bool |-> FALSE]]
            \o CondsByOp(tags, field_name, k + 1)

get_conditions_raises(q, field_name) ==
    \E i \in 1..Len(q.tags) :
        /\ q.tags[i].numeric
        /\ q.tags[i].op \in {"<", ">", "<=", ">="}
        /\ q.tags[i].key # field_name

get_conditions(q, field_name) == CondsByOp(q.tags, field_name, 1)

does_divide_by_self(q) == q.divSelf

\* line 710
UnsupportedCombination(divide_by_self, conditions, modifications) ==
    divide_by_self /\ (conditions # <<>> \/ modifications # <<>>)

\* one pass of the loop of format_expression, for one condition.
\* group_by is [some, by, over_time]; some = FALSE is None.
FormatOne(divide_by_self, metric_name, aggregations, labels, group_by, modifications, condition0) ==
    LET lastAgg == IF aggregations = <<>> THEN "" ELSE aggregations[Len(aggregations)]
        aggset == {aggregations[i] : i \in 1..Len(aggregations)}
        ot0 == IF group_by.some THEN group_by.over_time ELSE NoWindow
        ot1 == IF group_by.some /\ ot0 = NoWindow /\ "count" \in aggset
               THEN W(0, "$__range") ELSE ot0
        fns1 == IF group_by.some /\ ot0 # NoWindow /\ aggset \cap OVER_TIME_AGGREGATIONS # {}
                THEN IF "rate" \in aggset THEN {"rate"}
                     ELSE IF "increase" \in aggset THEN {"increase"}
                     ELSE {a \o "_over_time" : a \in aggset \cap OVER_TIME_AGGREGATIONS}
                ELSE {}
        cond1 == IF divide_by_self
                 THEN IF condition0 = <<>> THEN <<[op |-> "!=", value |-> <<"0">>, bool |-> TRUE]>>
                      ELSE [condition0 EXCEPT ![1].bool = TRUE]
                 ELSE condition0
        cond2 == IF cond1 = <<[op |-> ">", value |-> <<"0">>, bool |-> FALSE]>> /\ lastAgg = "sum"
                 THEN <<>> ELSE cond1
        defaulted == lastAgg \in {"rate", "increase"} /\ fns1 = {}
        fns2 == IF defaulted THEN {lastAgg} ELSE fns1
        agg2 == IF defaulted THEN get_metric_aggregation(metric_name) ELSE lastAgg
        ot2 == IF defaulted /\ ot1 = NoWindow THEN W(0, "$__rate_interval") ELSE ot1
        grouped == lastAgg # "" /\ group_by.some /\ (group_by.by # <<>> \/ fns2 # {})
        promote == grouped /\ cond2 = <<>> /\ agg2 = "count"
        agg3 == IF promote THEN "sum" ELSE agg2
        fns3 == IF promote THEN {"count_over_time"} ELSE fns2
        fns4 == IF cond2 # <<>> /\ aggset \ {"avg", "max", "min"} # {} THEN {} ELSE fns3
        scrape == IF HasPrefix(metric_name, <<"busy", "_", "metric", "_">>)
                  THEN 1 ELSE SCRAPE_INTERVAL_SECONDS
        rateish == "rate" \in aggset \/ "increase" \in aggset
        keepRate == rateish /\ ot2.unit \in {"$__rate_interval", "$__interval"}
                    /\ scrape = SCRAPE_INTERVAL_SECONDS
        ot3 == IF keepRate THEN W(0, "$__rate_interval") ELSE ot2
        over_times ==
            IF ot2 = NoWindow THEN <<>>
            ELSE (IF rateish
                  THEN IF keepRate THEN <<>> ELSE <<_seconds_to_duration(scrape * 4)>>
                  ELSE <<_seconds_to_duration(scrape)>>)
                 \o <<ot3>>
    IN [expr |-> [agg |-> agg3,
                  by |-> IF grouped THEN group_by.by ELSE <<>>,
                  fns |-> fns4,
                  metric |-> metric_name,
                  labels |-> labels,
                  bracket |-> IF ot2 # NoWindow /\ fns4 # {}
                              THEN (IF ot3.unit \in {"m", "h", "d", "w", "y", "ms"}
                                    THEN W(0, "$__interval") ELSE ot3)
                              ELSE NoWindow,
                  cond |-> cond2,
                  mods |-> modifications],
        over_times |-> over_times]

RECURSIVE FormatAll(_, _, _, _, _, _, _)
FormatAll(divide_by_self, metric_name, aggregations, labels, group_by, modifications, conditions) ==
    IF conditions = <<>> THEN [exprs |-> <<>>, over_times |-> <<>>]
    ELSE LET one == FormatOne(divide_by_self, metric_name, aggregations, labels,
                              group_by, modifications, Head(conditions))
             rest == FormatAll(divide_by_self, metric_name, aggregations, labels,
                               group_by, modifications, Tail(conditions))
         IN [exprs |-> <<one.expr>> \o rest.exprs,
             over_times |-> one.over_times \o rest.over_times]

\* format_expression: [exprs (joined with " or "), over_times, fills]
format_expression(divide_by_self, metric_name, aggregations, labels, group_by, modifications, conditions) ==
    FormatAll(divide_by_self, _replace_invalid_metric_characters(metric_name),
              aggregations, labels, group_by, modifications, conditions)

\* An error handed to ErrorManager.add_error while a target or panel is
\* converted; the action that runs the conversion stamps the context on it.
Err(level, msg) == [level |-> level, msg |-> msg]

\* convert_expression(query):
\*   [status, exprs, over_times, fills, ran_group_by, labels_after, errs]
\* ran_group_by tells whether get_group_by was reached (it overwrites
\* self.group_by_labels first thing); labels_after is its new value.
convert_expression(q) ==
    LET failEarly == [status |-> "ValueError", exprs |-> <<>>, over_times |-> <<>>,
                      fills |-> <<>>, ran_group_by |-> FALSE, labels_after |-> <<>>,
                      errs |-> <<>>]
        mn == get_metric_name(q)
    IN IF mn.status # "ok" THEN failEarly
       ELSE
       LET series_name == AfterLastDot(mn.value[1])
           field_name == DotsToUnderscore(mn.value[2])
           metric_name == series_name \o <<"_">> \o field_name
           aggs0 == get_aggregations(q)
           aggs1 == IF aggs0 = <<"avg">> THEN <<get_metric_aggregation(metric_name)>> ELSE aggs0
           labels == get_labels(q, field_name)
           modifications == get_modifications(q)
           group_by == [some |-> HasGroupBy(q), by |-> q.groupTags, over_time |-> q.window]
           labels_after == IF HasGroupBy(q) THEN q.groupTags ELSE <<>>
           needDefault == aggs1 = <<>> /\ group_by.some /\ group_by.by # <<>>
           aggs2 == IF needDefault THEN <<get_metric_aggregation(metric_name)>> ELSE aggs1
           errs == IF needDefault /\ aggs2 = <<"avg">>
                   THEN <<Err("WARN", "Using default aggregation of avg")>> ELSE <<>>
           conds == get_conditions(q, field_name)
           \* a list of conditions when the text has " OR ", one joined string otherwise
           conditions == IF OrInQuery(q) /\ conds # <<>>
                         THEN [i \in 1..Len(conds) |-> <<conds[i]>>]
                         ELSE <<conds>>
           divide_by_self == does_divide_by_self(q)
           failLate == [status |-> "ValueError", exprs |-> <<>>, over_times |-> <<>>,
                        fills |-> <<>>, ran_group_by |-> TRUE, labels_after |-> labels_after,
                        errs |-> errs]
       IN IF get_conditions_raises(q, field_name) THEN failLate
          ELSE IF UnsupportedCombination(divide_by_self, conds, modifications) THEN failLate
          ELSE LET f == format_expression(divide_by_self, metric_name, aggs2, labels,
                                          group_by, modifications, conditions)
               IN [status |-> "ok", exprs |-> f.exprs, over_times |-> f.over_times,
                   fills |-> IF group_by.some THEN q.fills ELSE <<>>,
                   ran_group_by |-> TRUE, labels_after |-> labels_after, errs |-> errs]

\* get_legend_format(target): the alias, or the group-by labels that
\* self.group_by_labels holds when the target has no alias
get_legend_format(target, labels_now) ==
    IF target.alias = <<>> /\ labels_now # <<>>
    THEN [i \in 1..Len(labels_now) |-> <<"{{">> \o labels_now[i] \o <<"}}">>]
    ELSE IF target.alias = <<>> THEN <<>> ELSE <<target.alias>>

\* the result of convert_query when it raises e
QueryRaises(e) ==
    [status |-> e, target |-> BlankTarget, over_times |-> <<>>, fills |-> <<>>,
     ran_group_by |-> FALSE, labels_after |-> <<>>, errs |-> <<>>]

\* a plausible fault: no target is an instant query
Instant_never(fmt) == FALSE

\* line 823: "instant": fmt == "table"
Instant(fmt) == fmt = "table"

\* lines 813-832: the target convert_query builds from r, the outcome of
\* convert_expression
QueryConverted(r, target, legend) ==
    IF r.status # "ok"
    THEN [QueryRaises(r.status) EXCEPT !.ran_group_by = r.ran_group_by,
                                       !.labels_after = r.labels_after,
                                       !.errs = r.errs]
    ELSE [status |-> "ok",
          target |-> [BlankTarget EXCEPT
                        !.kind = "prom",
                        !.expr = r.exprs,
                        !.resultFormat = target.resultFormat,
                        !.instant = Instant(target.resultFormat),
                        !.intervalFactor = 1,
                        !.refId = target.refId,
                        !.legendFormat = legend,
                        !.hasHide = target.hasHide,
                        !.hide = target.hide],
          over_times |-> r.over_times, fills |-> r.fills,
          ran_group_by |-> TRUE, labels_after |-> r.labels_after,
          errs |-> r.errs]

\* line 753: convert_expression returns the four values of format_expression
\* and convert_subquery unpacks three, which raises ValueError when
\* convert_expression did not raise it already; get_group_by has run by then
SubqueryUnpacked(r) ==
    [QueryRaises("ValueError") EXCEPT !.ran_group_by = r.ran_group_by,
                                      !.labels_after = r.labels_after,
                                      !.errs = r.errs]

\* convert_subquery(query): the pattern of lines 733-746 wants SUM as the
\* outer function; the text it hands to convert_expression is the inner
\* select followed by the outer GROUP BY
convert_subquery(q) ==
    IF q.outerFn = "sum"
    THEN SubqueryUnpacked(convert_expression([q EXCEPT !.sub = FALSE, !.outerFn = ""]))
    ELSE QueryRaises("ValueError")

\* convert_query(query, target, legend); isTuple: query is the tuple that
\* convert_to_query returns for a flagged target, on which query.lower()
\* raises AttributeError
convert_query(q, isTuple, target, legend) ==
    IF isTuple THEN QueryRaises("AttributeError")
    ELSE IF q.diamond \/ q.star THEN QueryRaises("ValueError")
    ELSE IF q.sub THEN convert_subquery(q)
    ELSE QueryConverted(convert_expression(q), target, legend)

SkipError == Err("DEBUG", "Skipping target - not Influx or is Flux")

\* lines 1052-1059: the query text of an accepted target
TargetQuery(target) ==
    IF target.rawQuery
    THEN [status |-> "ok", tuple |-> FALSE, value |-> target.query, distinct |-> 0,
          boundary |-> <<>>]
    ELSE convert_to_query(target)

\* the errors convert_to_query records: one for each "distinct" item it
\* drops, then those of the boundaries of an OR group
DistinctErrors(tq) ==
    [i \in 1..tq.distinct |-> Err("INFO", "Dropping unsupported item type: distinct")]
    \o tq.boundary

\* lines 1063-1070: acc after convert_query answered r for one target
TargetAppended(acc, derrs, r) ==
    LET gbl == IF r.ran_group_by THEN r.labels_after ELSE acc.group_by_labels
    IN IF r.status # "ok"
       THEN [acc EXCEPT !.status = r.status, !.errs = @ \o derrs \o r.errs,
                        !.group_by_labels = gbl]
       ELSE [acc EXCEPT !.new_targets = @ \o <<r.target>>,
                        !.over_times = @ \o r.over_times,
                        !.fills = @ \o r.fills,
                        !.group_by_labels = gbl,
                        !.errs = @ \o derrs \o r.errs]

\* lines 1043-1070: an accepted target whose query text is tq; the legend is
\* computed from self.group_by_labels before convert_query runs
TargetConverted(target, acc, tq) ==
    IF tq.status # "ok"
    THEN [acc EXCEPT !.status = tq.status, !.errs = @ \o DistinctErrors(tq)]
    ELSE TargetAppended(acc, DistinctErrors(tq),
             convert_query(tq.value, tq.tuple, target,
                 _replace_invalid_metric_characters_legend(
                     get_legend_format(target, acc.group_by_labels))))

\* a plausible fault: the rejected target is handed on without the flag
PassThrough_unflagged(target) == target

\* lines 1083-1085: deepcopy(target) with 'not-influx-target' set
PassThrough(target) == [target EXCEPT !.flag = "true"]

\* one round of the loop of convert_targets (lines 1040-1087)
convert_target(target, templating, old_panel_datasource, acc) ==
    IF is_target_influx_raises(target.dsType, target.datasource, templating, old_panel_datasource)
    THEN [acc EXCEPT !.status = "TypeError"]
    ELSE IF is_target_influx(target.dsType, target.datasource, templating, old_panel_datasource)
    THEN TargetConverted(target, acc, TargetQuery(target))
    ELSE [acc EXCEPT !.new_targets = @ \o <<PassThrough(target)>>,
                     !.errs = @ \o <<SkipError>>]

RECURSIVE convert_targets(_, _, _, _)
\* convert_targets(targets, old_panel_datasource), with the converter state it
\* reads and writes on the way.  acc is
\*   [status, new_targets, over_times, fills, group_by_labels, errs]
convert_targets(targets, templating, old_panel_datasource, acc) ==
    IF targets = <<>> \/ acc.status # "ok" THEN acc
    ELSE convert_targets(Tail(targets), templating, old_panel_datasource,
             convert_target(Head(targets), templating, old_panel_datasource, acc))

----------------------------------------------------------------------------
(* MetricUsageIndex: self.metric_to_objects, a dict of dicts of lists.     *)
(* Python dicts keep insertion order and _update_label_values_metric       *)
(* depends on it, so the index is an association list                      *)
(*   << [metric, by : << [title, objs : <<entry, ...>>] >>] >>.            *)
(* An entry is a reference to a dict of the dashboard; its identity is     *)
(* (kind, d, p, i): dashboard ordinal, panel ordinal, position.            *)

Entry(kind, d, pord, i, obj) == [kind |-> kind, d |-> d, p |-> pord, i |-> i, obj |-> obj]

MetricPos(index, metric) ==
    IF \E k \in 1..Len(index) : index[k].metric = metric
    THEN CHOOSE k \in 1..Len(index) : index[k].metric = metric
    ELSE 0

TitlePos(by, title) ==
    IF \E k \in 1..Len(by) : by[k].title = title
    THEN CHOOSE k \in 1..Len(by) : by[k].title = title
    ELSE 0

IndexHas(index, metric, title) ==
    /\ MetricPos(index, metric) # 0
    /\ TitlePos(index[MetricPos(index, metric)].by, title) # 0

IndexList(index, metric, title) ==
    IF IndexHas(index, metric, title)
    THEN LET m == index[MetricPos(index, metric)] IN m.by[TitlePos(m.by, title)].objs
    ELSE <<>>

\* a plausible fault: the entry is put in front of the list
IndexAppend_front(index, metric, title, entry) ==
    LET mp == MetricPos(index, metric)
        tp == TitlePos(index[mp].by, title)
    IN [index EXCEPT ![mp].by[tp].objs = <<entry>> \o @]

\* self.metric_to_objects[metric][title].append(entry), both keys present
IndexAppend(index, metric, title, entry) ==
    LET mp == MetricPos(index, metric)
        tp == TitlePos(index[mp].by, title)
    IN [index EXCEPT ![mp].by[tp].objs = Append(@, entry)]

\* lines 218-221: the KeyError handler creates the missing keys, the list empty
IndexCreate(index, metric, title) ==
    LET mp == MetricPos(index, metric) IN
    IF mp = 0
    THEN Append(index, [metric |-> metric, by |-> <<[title |-> title, objs |-> <<>>]>>])
    ELSE LET tp == TitlePos(index[mp].by, title) IN
         IF tp = 0
         THEN [index EXCEPT ![mp].by = Append(@, [title |-> title, objs |-> <<>>])]
         ELSE [index EXCEPT ![mp].by[tp].objs = <<>>]

\* lines 214-224: try: append / except KeyError: create; then append
IndexFile(index, metric, title, entry) ==
    IF IndexHas(index, metric, title)
    THEN IndexAppend(IndexAppend(index, metric, title, entry), metric, title, entry)
    ELSE IndexAppend(IndexCreate(index, metric, title), metric, title, entry)

\* get_metric_field_from_select: params[0] of the first "field" item of select[0]
get_metric_field_from_select(select) ==
    IF select = <<>> THEN <<>>
    ELSE LET fields == SelectSeq(select[1], LAMBDA it : it.type = "field") IN
         IF fields = <<>> THEN <<>> ELSE fields[1].param

\* str + str: the last word of a and the first word of b become one word
StrConcat(a, b) ==
    IF a = <<>> THEN b
    ELSE IF b = <<>> THEN a
    ELSE SubSeq(a, 1, Len(a) - 1) \o <<a[Len(a)] \o b[1]>> \o Tail(b)

\* lines 191-213: the key a target is filed under: Ok(name) or an exception
IndexMetricName(old_target) ==
    IF old_target.rawQuery
    THEN LET mn == get_metric_name(old_target.query) IN
         IF mn.status # "ok" THEN Raise("ValueError")
         ELSE Ok(_replace_invalid_metric_characters(StrConcat(mn.value[1], mn.value[2])))
    ELSE IF get_metric_field_from_select(old_target.select) = <<>>
         THEN Raise("ValueError")
         ELSE Ok(_replace_invalid_metric_characters(
                    old_target.measurement \o <<"_">>
                    \o get_metric_field_from_select(old_target.select)))

RECURSIVE add_to_metric_and_object_list(_, _, _, _, _, _, _, _, _)
\* add_to_metric_and_object_list(old_targets, new_targets, old_panel_datasource)
\* from position i on; acc is [status, index, errs]
add_to_metric_and_object_list(old_targets, new_targets, old_panel_datasource, templating, title, d, pord, i, acc) ==
    IF i > Len(old_targets) \/ acc.status # "ok" THEN acc
    ELSE
    LET old_target == old_targets[i]
        next(a) == add_to_metric_and_object_list(old_targets, new_targets,
                       old_panel_datasource, templating, title, d, pord, i + 1, a)
    IN IF is_target_influx_raises(old_target.dsType, old_target.datasource, templating, old_panel_datasource)
       THEN [acc EXCEPT !.status = "TypeError"]
       ELSE IF ~is_target_influx(old_target.dsType, old_target.datasource, templating, old_panel_datasource)
       THEN next([acc EXCEPT !.errs = @ \o <<SkipError>>])
       ELSE LET name == IndexMetricName(old_target) IN
            IF name.status # "ok"
            THEN [acc EXCEPT !.status = name.status,
                             !.errs = @ \o (IF old_target.rawQuery THEN <<>>
                                            ELSE <<Err("INFO", "Missing field name")>>)]
            ELSE next([acc EXCEPT !.index =
                        IndexFile(@, name.value, title, Entry("target", d, pord, i, new_targets[i]))])

----------------------------------------------------------------------------
(* Alerts *)

\* the converter's alert_notifications_map / alert_notifications_uid_map
\* when they are configured: id 1 and uid "u1" are mapped
alert_notifications_map(id) == IF id = 1 THEN "new1" ELSE ""
alert_notifications_uid_map(uid) == IF uid = "u1" THEN "newu1" ELSE ""

\* one notification {id?, uid?}: id 0 is a missing or falsy id.  The new uid,
\* "" when neither table maps it (uids of the model are not numeric, so
\* int(n_uid) raises ValueError and the uid table is asked)
NewUid(notification) ==
    IF notification.id # 0 /\ alert_notifications_map(notification.id) # ""
    THEN alert_notifications_map(notification.id)
    ELSE alert_notifications_uid_map(notification.uid)

RECURSIVE Dedup(_)
Dedup(s) ==
    IF s = <<>> THEN <<>>
    ELSE LET front == Dedup(SubSeq(s, 1, Len(s) - 1)) IN
         IF \E k \in 1..Len(front) : front[k] = s[Len(s)] THEN front
         ELSE Append(front, s[Len(s)])

\* convert_alerts(alert, panel_title): Ok(alert') or ValueError.
\* mapped: both notification tables are configured.
convert_alerts(alert, mapped) ==
    IF ~mapped THEN Ok([alert EXCEPT !.hasNotifications = FALSE, !.notifications = <<>>])
    ELSE IF \E k \in 1..Len(alert.notifications) : NewUid(alert.notifications[k]) = ""
    THEN Raise("ValueError")
    ELSE Ok([alert EXCEPT
               !.renamed = TRUE,
               !.notifications =
                   Dedup([k \in 1..Len(alert.notifications) |->
                            [id |-> 0, uid |-> NewUid(alert.notifications[k])]])])

NoAlert == [renamed |-> FALSE, hasNotifications |-> FALSE, notifications |-> <<>>]

----------------------------------------------------------------------------
(* Panels *)

\* the converter's replacement_datasource (the run configuration's
\* "datasource"); __init__ asserts it has "uid" and "type"
replacement_datasource == DsDict("prometheus", <<"PromUid">>)

NoPanel ==
    [id |-> 0, type |-> "graph", datasource |-> DsAbsent, hasTargets |-> FALSE,
     targets |-> <<>>, hasAlert |-> FALSE, alert |-> NoAlert, interval |-> NoWindow,
     nullPointMode |-> "", panels |-> <<>>]

\* lines 1101-1105
OldPanelDatasource(panel) ==
    IF panel.datasource.kind \in {"absent", "null"} THEN DsType("influxdb")
    ELSE panel.datasource

SeqToSet(s) == {s[i] : i \in 1..Len(s)}

\* lines 1127-1147: the windows left after the discards, and the windows
\* dropped with an error
KeptWindows(over_times) ==
    {w \in SeqToSet(over_times) :
        w.unit \notin {"$interval", "$__interval", "$__rate_interval", "$unite_interval"}}

UnsupportedWindows(over_times) ==
    {w \in SeqToSet(over_times) : w.unit = "$unite_interval"}

\* lines 1148-1153: is max(_duration_to_seconds(x) for x in over_times) evaluated
InfersInterval(panel, over_times) ==
    /\ KeptWindows(over_times) # {}
    /\ panel.interval = NoWindow
    /\ W(0, "$__range") \notin KeptWindows(over_times)

\* the exceptions that evaluation can raise: the set is iterated in no fixed
\* order, so the first element _duration_to_seconds rejects can be any of them
IntervalFailures(panel, over_times) ==
    IF InfersInterval(panel, over_times)
    THEN {_duration_to_seconds_status(w) : w \in KeptWindows(over_times)} \ {"ok"}
    ELSE {}

SetMax(S) == CHOOSE x \in S : \A y \in S : y <= x

\* lines 1153-1156
InferredInterval(panel, over_times) ==
    LET secs == SetMax({_duration_to_seconds(w) : w \in KeptWindows(over_times)}) IN
    IF InfersInterval(panel, over_times) /\ secs # SCRAPE_INTERVAL_SECONDS
    THEN _seconds_to_duration(secs)
    ELSE panel.interval

\* the accumulator convert_targets starts from
NoTargets(labels_now) ==
    [status |-> "ok", new_targets |-> <<>>, over_times |-> <<>>, fills |-> <<>>,
     group_by_labels |-> labels_now, errs |-> <<>>]

\* lines 1126-1176 of convert_panel: ct is what convert_targets did, am what
\* add_to_metric_and_object_list did
PanelConverted(panel, st, pick, ct, am) ==
    LET p0 == IF panel.datasource.kind # "absent"
              THEN [panel EXCEPT !.datasource = replacement_datasource] ELSE panel
        indexed == ct.status = "ok" /\ am.status = "ok"
        p1 == IF panel.hasTargets /\ indexed THEN [p0 EXCEPT !.targets = ct.new_targets] ELSE p0
        ierrs == IF panel.hasTargets /\ indexed
                 THEN [k \in 1..Cardinality(UnsupportedWindows(ct.over_times)) |->
                          Err("INFO", "Dropping unsupported interval")]
                 ELSE <<>>
        ist == IF panel.hasTargets /\ indexed THEN pick ELSE "ok"
        inferred == indexed /\ ist = "ok"
        fills == SeqToSet(ct.fills) \ {"null"}
        p2 == IF panel.hasTargets /\ inferred
              THEN [p1 EXCEPT !.interval = InferredInterval(panel, ct.over_times),
                              !.nullPointMode = IF "0" \in fills THEN "null as zero" ELSE @]
              ELSE p1
        ferrs == IF panel.hasTargets /\ inferred /\ fills \ {"0"} # {}
                 THEN <<Err("INFO", "Unsupported fills")>> ELSE <<>>
        al == IF panel.hasAlert /\ inferred THEN convert_alerts(panel.alert, st.mapped)
              ELSE Ok(panel.alert)
        p3 == IF panel.hasAlert /\ inferred /\ al.status = "ok"
              THEN [p2 EXCEPT !.alert = al.value] ELSE p2
        raised == IF ct.status # "ok" THEN ct.status
                  ELSE IF am.status # "ok" THEN am.status
                  ELSE IF ist # "ok" THEN ist
                  ELSE al.status
        errs == ct.errs \o am.errs \o ierrs \o ferrs
    IN [panel |-> IF raised = "ValueError"
                  THEN [p3 EXCEPT !.hasTargets = FALSE, !.targets = <<>>,
                                  !.hasAlert = FALSE, !.alert = NoAlert]
                  ELSE p3,
        index |-> am.index,
        group_by_labels |-> ct.group_by_labels,
        errs |-> IF raised = "ValueError"
                 THEN errs \o <<Err("ERROR", "Unable to convert")>> ELSE errs,
        raised |-> raised]

\* lines 1123-1125: add_to_metric_and_object_list runs when convert_targets
\* returned
PanelIndexed(panel, st, pick, ct) ==
    PanelConverted(panel, st, pick, ct,
        IF panel.hasTargets /\ ct.status = "ok"
        THEN add_to_metric_and_object_list(panel.targets, ct.new_targets,
                 OldPanelDatasource(panel), st.templating, st.title, st.d, st.pn, 1,
                 [status |-> "ok", index |-> st.index, errs |-> <<>>])
        ELSE [status |-> "ok", index |-> st.index, errs |-> <<>>])

\* convert_panel(panel) for a panel that is no row, lines 1101-1176.
\* st is the converter state it reads: [templating, title, d, pn,
\* group_by_labels, index, mapped]; pick is the exception the interval
\* inference raises when it raises ("ok" otherwise).
\* Result: [panel, index, group_by_labels, errs, raised]; raised is "ok",
\* "ValueError" (caught at line 1167) or the exception that leaves convert_panel.
convert_panel(panel, st, pick) ==
    PanelIndexed(panel, st, pick,
        IF panel.hasTargets
        THEN convert_targets(panel.targets, st.templating, OldPanelDatasource(panel),
                 NoTargets(st.group_by_labels))
        ELSE NoTargets(st.group_by_labels))

----------------------------------------------------------------------------
(* Templating *)

\* a template variable of the dashboard's templating list; "definition" is
\* the copy of the query text that Grafana keeps next to "query"
Var(name, type, query) ==
    [name |-> name, type |-> type, query |-> query, definition |-> query,
     datasource |-> DsAbsent, sort |-> 0, allValue |-> ""]

DsVar(name, q) == Var(name, "datasource", TextQuery(<<q>>))

\* a plausible fault: the variable keeps a discovery query of the source system
LabelValues_discovery(metric, key) == [shape |-> "from_key", tag |-> metric, key |-> key]

\* lines 291-297: label_values(metric,key), or label_values(key) without a metric
LabelValues(metric, key) == [shape |-> "label_values", tag |-> metric, key |-> key]

RECURSIVE convert_templating_from(_, _, _, _)
\* the loop of convert_templating from item idx on (lines 234-311); acc is
\* [status, list, rep, errs, to_be_deleted]; rep collects what the loop
\* appends to self._get_rep_metric
convert_templating_from(d, idx, len, acc) ==
    IF idx > len \/ acc.status # "ok" THEN acc
    ELSE
    LET item == acc.list[idx]
        q == item.query
        next(a) == convert_templating_from(d, idx + 1, len, a)
        warn == Err("WARN", "REGEXP show tag values is not supported in Prometheus")
        metric == FilterOut(_replace_invalid_metric_characters(q.tag), {"/"})
        key == _replace_invalid_metric_characters(q.key)
        \* lines 236-244: replacement_datasource is always set
        touched == [item EXCEPT !.datasource = replacement_datasource, !.sort = 3]
        new_item == [touched EXCEPT !.query = LabelValues(metric, key),
                                    !.definition = LabelValues(metric, key),
                                    !.allValue = IF @ = "*" THEN ".*" ELSE @]
    IN IF item.type = "query" THEN
          IF q.shape = "show_field_keys"
          THEN next([acc EXCEPT !.list[idx] = touched, !.to_be_deleted = @ \cup {idx}])
          ELSE IF q.shape \in {"from_key", "key", "from_regex_key"}
          THEN next([acc EXCEPT
                       !.list[idx] = new_item,
                       !.errs = IF q.shape = "from_regex_key" THEN @ \o <<warn>> ELSE @,
                       !.rep = IF metric # <<>>
                               THEN @ \o <<[metric |-> metric, d |-> d, i |-> idx, var |-> new_item]>>
                               ELSE @])
          ELSE [acc EXCEPT !.list[idx] = touched, !.status = "ValueError",
                           !.errs = @ \o <<warn>>]
       ELSE IF item.type \in {"custom", "interval", "datasource"} THEN next(acc)
       ELSE [acc EXCEPT !.status = "ValueError"]

RECURSIVE RemoveAt(_, _, _)
RemoveAt(list, dead, k) ==
    IF k > Len(list) THEN <<>>
    ELSE (IF k \in dead THEN <<>> ELSE <<list[k]>>) \o RemoveAt(list, dead, k + 1)

\* a plausible fault: the SHOW FIELD KEYS variables stay in the list
DeleteItems_none(list, to_be_deleted) == list

\* lines 312-313: del template["list"][idx] for every idx of to_be_deleted
DeleteItems(list, to_be_deleted) == RemoveAt(list, to_be_deleted, 1)

\* a plausible fault: a variable convert_templating cannot convert is left
\* as it is instead of failing the dashboard
convert_templating_lenient(list, d) ==
    [status |-> "ok", list |-> list, rep |-> <<>>, errs |-> <<>>, to_be_deleted |-> {}]

\* convert_templating(template): [status, list, rep, errs, to_be_deleted];
\* the deletions of lines 312-313 happen only when the loop ends normally
convert_templating(list, d) ==
    LET r == convert_templating_from(d, 1, Len(list),
                 [status |-> "ok", list |-> list, rep |-> <<>>, errs |-> <<>>,
                  to_be_deleted |-> {}])
    IN IF r.status = "ok" THEN [r EXCEPT !.list = DeleteItems(r.list, r.to_be_deleted)]
       ELSE r

\* the position of item i of the list after the deletions
PosAfterDelete(i, dead) == i - Cardinality({j \in dead : j < i})

----------------------------------------------------------------------------
(* Back-fill *)

HasUnderscore(metric) == \E k \in 1..Len(metric) : metric[k] = "_"

\* metric.rsplit("_", maxsplit=1)[0]
RSplitHead(metric) ==
    LET k == CHOOSE j \in 1..Len(metric) :
                 metric[j] = "_" /\ \A l \in (j + 1)..Len(metric) : metric[l] # "_"
    IN SubSeq(metric, 1, k - 1)

\* line 1225
BackfillMatches(metric, dashboard_metric) ==
    /\ HasUnderscore(metric)
    /\ (RSplitHead(metric) = dashboard_metric \/ metric = dashboard_metric)

RECURSIVE ReplaceSub(_, _, _)
\* str.replace(old, new) on a token sequence
ReplaceSub(s, old, new) ==
    IF s = <<>> \/ old = <<>> THEN s
    ELSE IF HasPrefix(s, old) THEN new \o ReplaceSub(SubSeq(s, Len(old) + 1, Len(s)), old, new)
    ELSE <<Head(s)>> \o ReplaceSub(Tail(s), old, new)

\* the first key of the index, in insertion order, that the loop of lines
\* 1221-1243 stops at; 0 when it finds none
FirstMatch(index, dashboard_metric) ==
    IF \E k \in 1..Len(index) : BackfillMatches(index[k].metric, dashboard_metric)
    THEN CHOOSE k \in 1..Len(index) :
            /\ BackfillMatches(index[k].metric, dashboard_metric)
            /\ \A j \in 1..(k - 1) : ~BackfillMatches(index[j].metric, dashboard_metric)
    ELSE 0

RewriteQuery(q, dashboard_metric, metric) ==
    [q EXCEPT !.tag = ReplaceSub(@, dashboard_metric, metric),
              !.key = ReplaceSub(@, dashboard_metric, metric)]

RECURSIVE _update_label_values_metric(_, _, _)
\* _update_label_values_metric() over the entries of self._get_rep_metric;
\* acc is [index, vars, errs]: vars are the entries with the query text
\* each variable ends with
_update_label_values_metric(rep, title, acc) ==
    IF rep = <<>> THEN acc
    ELSE
    LET r == Head(rep)
        k == FirstMatch(acc.index, r.metric)
    IN IF k = 0
       THEN _update_label_values_metric(Tail(rep), title, [acc EXCEPT !.vars = Append(@, r)])
       ELSE
       LET metric == acc.index[k].metric
           var == [r.var EXCEPT !.query = RewriteQuery(@, r.metric, metric)]
           r2 == [r EXCEPT !.var = var]
       IN _update_label_values_metric(Tail(rep), title,
            IF IndexHas(acc.index, metric, title)
            THEN [acc EXCEPT !.index = IndexAppend(@, metric, title, Entry("var", r.d, 0, r.i, var)),
                             !.vars = Append(@, r2)]
            ELSE [acc EXCEPT !.errs = @ \o <<Err("ERROR", "Invalid dashboard on templating replacement split")>>,
                             !.vars = Append(@, r2)])

----------------------------------------------------------------------------
(* Input documents *)

MaxDashboards == 2
MaxPanels == 2

Name(a) == <<a>>
Name2(a, b) == <<a, "_", b>>

Item(type, param) == [type |-> type, param |-> param]
GroupTime(w) == [type |-> "time", window |-> w, name |-> <<>>]
GroupTag(name) == [type |-> "tag", window |-> NoWindow, name |-> name]

\* a structured target: SELECT mean("field") FROM "measurement" GROUP BY time(window)
Structured(refId, measurement, field, agg, window) ==
    [BlankTarget EXCEPT
        !.refId = refId, !.measurement = measurement, !.hasSelect = TRUE,
        !.select = << <<Item("field", field), Item(agg, <<>>)>> >>,
        !.groupBy = IF window = NoWindow THEN <<>> ELSE <<GroupTime(window)>>]

\* a raw-query target with the same text
Raw(refId, measurement, field, agg, window) ==
    [BlankTarget EXCEPT
        !.refId = refId, !.rawQuery = TRUE,
        !.query = [NoQuery EXCEPT !.fns = <<agg>>, !.field = field,
                                  !.measurement = measurement, !.hasWhere = TRUE,
                                  !.window = window]]

Interval == W(0, "$__interval")

T_recv == Structured("A", Name("net"), Name2("bytes", "recv"), "mean", Interval)
T_sent == Structured("B", Name("net"), Name2("bytes", "sent"), "mean", Interval)
T_idle == Structured("A", Name("cpu"), Name("idle"), "mean", W(5, "m"))
T_user == Raw("B", Name("cpu"), Name("user"), "mean", Interval)
T_table == [T_user EXCEPT !.resultFormat = "table", !.hasHide = TRUE, !.hide = TRUE]
T_year == Structured("A", Name("cpu"), Name("idle"), "mean", W(1, "y"))
T_millis == Structured("A", Name("cpu"), Name("idle"), "mean", W(5, "ms"))
T_diamond == [Raw("A", Name("cpu"), Name("idle"), "mean", Interval) EXCEPT !.query.diamond = TRUE]
T_nofield == [T_idle EXCEPT !.select = << <<Item("mean", <<>>)>>, <<Item("field", Name("idle"))>> >>]
T_null == [T_idle EXCEPT !.datasource = DsNull]
T_cloud == [T_idle EXCEPT !.refId = "C", !.datasource = DsDict("cloudwatch", <<"NotInfluxDBUid">>)]
T_flux == [T_idle EXCEPT !.datasource = DsDict("influxdb", <<"FluxUid">>)]
T_flagged == [T_cloud EXCEPT !.flag = "true"]
T_flagged_influx == [T_idle EXCEPT !.flag = "true", !.dsType = "influxdb"]
T_flagged_raw == [T_user EXCEPT !.flag = "true", !.dsType = "influxdb"]
T_influx == [T_idle EXCEPT !.refId = "B", !.datasource = DsDict("influxdb", <<"$", "InfluxUid">>)]

Panel(id, ds, targets) ==
    [NoPanel EXCEPT !.id = id, !.datasource = ds, !.hasTargets = TRUE, !.targets = targets]

Row(id, panels) == [NoPanel EXCEPT !.id = id, !.type = "row", !.panels = panels]

Alert(notifications) ==
    [renamed |-> FALSE, hasNotifications |-> TRUE, notifications |-> notifications]

WithAlert(panel, notifications) ==
    [panel EXCEPT !.hasAlert = TRUE, !.alert = Alert(notifications)]

PromDs == DsDict("prometheus", <<"OtherUid">>)

T_var == [T_idle EXCEPT !.refId = "B", !.datasource = DsUid(<<"$", "dsvar">>)]

\* cpu idle grouped by time and by the tag host
T_byhost == [T_idle EXCEPT !.groupBy = @ \o <<GroupTag(<<"host">>)>>]

\* family 1: panels that file metrics, with discovery variables to back-fill
\* family 2: panels whose targets fail to convert, templating that fails
\* family 3: panels whose alerts or indexing fail, notification tables set
\* family 4: panels of another datasource, flagged, Flux and variable targets
\* family 5: the layouts: top-level panels, row panels, legacy rows
Families == {1, 2, 3, 4, 5}

PanelPool(f) ==
    CASE f = 1 -> { Panel(1, DsAbsent, <<T_recv, T_sent>>),
                    Panel(2, DsNull, <<T_idle>>),
                    [Panel(3, DsAbsent, <<T_user, T_idle>>) EXCEPT !.interval = W(1, "m")] }
      [] f = 2 -> { Panel(1, DsAbsent, <<T_idle>>),
                    Panel(2, DsAbsent, <<T_year>>),
                    Panel(3, DsAbsent, <<T_recv, T_diamond>>) }
      [] f = 3 -> { Panel(4, DsAbsent, <<T_idle, T_millis>>),
                    WithAlert(Panel(5, DsAbsent, <<T_idle>>), <<[id |-> 7, uid |-> "zz"]>>),
                    WithAlert(Panel(6, DsAbsent, <<T_recv, T_nofield>>), <<[id |-> 1, uid |-> "u1"]>>),
                    Panel(7, DsAbsent, <<T_null>>) }
      [] f = 4 -> { Panel(1, PromDs, <<T_cloud, T_influx>>),
                    Panel(2, PromDs, <<T_flagged, T_flux>>),
                    Panel(3, PromDs, <<T_flagged_influx>>),
                    Panel(4, PromDs, <<T_flagged_raw, T_var>>),
                    Panel(5, DsAbsent, <<T_cloud>>),
                    Panel(6, PromDs, <<T_cloud>>) }
      [] f = 5 -> { Panel(1, DsAbsent, <<T_idle, T_table>>),
                    Panel(2, DsAbsent, <<T_byhost, T_sent>>),
                    Row(4, <<Panel(5, DsAbsent, <<T_sent>>)>>) }

Discovery(shape, tag, key) == [shape |-> shape, tag |-> tag, key |-> key]

V_net == Var(Name("hostvar"), "query", Discovery("from_key", Name("net"), Name("host")))
V_cpu == Var(Name("cpuvar"), "query", Discovery("from_key", Name("cpu"), Name("host")))
V_key == [Var(Name("dcvar"), "query", Discovery("key", <<>>, Name("dc"))) EXCEPT !.allValue = "*"]
V_regex == Var(Name("rxvar"), "query", Discovery("from_regex_key", Name("cpu"), Name("host")))
V_interval == Var(Name("ivvar"), "interval", TextQuery(Name("1m")))
V_fields == Var(Name("fieldvar"), "query", Discovery("show_field_keys", Name("net"), <<>>))
V_text == Var(Name("textvar"), "query", TextQuery(Name("select")))
V_adhoc == Var(Name("adhocvar"), "adhoc", TextQuery(<<>>))
V_custom == Var(Name("customvar"), "custom", TextQuery(Name("a")))

TemplatingPool(f) ==
    CASE f = 1 -> { <<V_net>>, <<V_fields, V_cpu, V_custom>>, <<V_cpu, V_adhoc>> }
      [] f = 2 -> { <<V_key, V_interval, V_regex>>, <<V_text>> }
      [] f = 3 -> { <<V_key>>, <<V_cpu, V_text>> }
      [] f = 4 -> { <<DsVar(<<"dsvar">>, "influxdb")>> }
      [] f = 5 -> { <<V_cpu>> }

\* a legacy dashboard keeps its last panel in a row of "rows" instead of "panels"
LegacyPool(f) == IF f = 5 THEN BOOLEAN ELSE {FALSE}

\* both notification tables are configured in family 3 only
Mapped(f) == f = 3

RECURSIVE SeqsUpTo(_, _)
SeqsUpTo(S, len) ==
    IF len = 0 THEN {<<>>}
    ELSE LET shorter == SeqsUpTo(S, len - 1) IN
         shorter \cup {Append(q, x) : q \in {r \in shorter : Len(r) = len - 1}, x \in S}

\* the dashboards of a family.  The first dashboard of a run has title "A",
\* a later one "A" again or "B".
DashboardPool(f, ord) ==
    { [title |-> t,
       panels |-> IF legacy /\ ps # <<>> THEN SubSeq(ps, 1, Len(ps) - 1) ELSE ps,
       rows |-> IF legacy /\ ps # <<>> THEN << <<ps[Len(ps)]>> >> ELSE <<>>,
       templating |-> tl] :
        t \in (IF ord = 1 THEN {"A"} ELSE {"A", "B"}),
        ps \in SeqsUpTo(PanelPool(f), MaxPanels),
        legacy \in LegacyPool(f),
        tl \in TemplatingPool(f) }

RECURSIVE Concat(_)
Concat(seqs) == IF seqs = <<>> THEN <<>> ELSE Head(seqs) \o Concat(Tail(seqs))

----------------------------------------------------------------------------
(* The run: main.convert_dashboards driving convert_dashboard *)

\* context.panel before the first convert_panel of the run (None)
NoContextPanel == [d |-> 0, id |-> 0]

NoLast ==
    [called |-> FALSE, d |-> 0, p |-> 0, panel |-> NoPanel, pd |-> DsAbsent,
     templating |-> <<>>, status |-> "none", new_targets |-> <<>>,
     raised |-> "none", out |-> NoPanel]

\* qc while no target is converted on its own
NoConversion == [called |-> FALSE, target |-> BlankTarget, out |-> NoTargets(<<>>)]

\* det while no call of the classifier is observed
NoCall ==
    [called |-> FALSE, dsType |-> "", ds |-> DsAbsent, templating |-> <<>>,
     pd |-> DsAbsent, outcome |-> "none"]

RECURSIVE AllPanels(_)
\* the panels convert_panels reaches that are no rows, in the order it
\* reaches them (a row's children right after the row)
AllPanels(panels) ==
    IF panels = <<>> THEN <<>>
    ELSE IF Head(panels).type = "row"
         THEN AllPanels(Head(panels).panels) \o AllPanels(Tail(panels))
         ELSE <<Head(panels)>> \o AllPanels(Tail(panels))

\* dashboard["panels"] followed by the panels of every dashboard["rows"] entry
DocPanels(d) == d.panels \o Concat(d.rows)

\* ErrorManager.add_error for a batch of errors: each is kept only when the
\* context names a dashboard and a panel.  The context holds the dashboard
\* as GrafanaDashboard(uid, title, ..): uid is its place in the run.
Stamp(errs, ctx) ==
    IF ctx.dashboard # "" /\ ctx.panel # NoContextPanel
    THEN [k \in 1..Len(errs) |->
             [level |-> errs[k].level, msg |-> errs[k].msg,
              dashboard |-> ctx.dashboard, uid |-> ctx.uid, panel |-> ctx.panel]]
    ELSE <<>>

\* what convert_targets makes of the panel's targets in the converter's
\* present state
PanelTargets(panel) ==
    convert_targets(panel.targets, cur.templating, OldPanelDatasource(panel),
        NoTargets(group_by_labels))

\* the outcomes the interval inference can have after convert_targets did ct
PicksOf(panel, ct) ==
    IF panel.hasTargets /\ ct.status = "ok" /\ IntervalFailures(panel, ct.over_times) # {}
    THEN IntervalFailures(panel, ct.over_times)
    ELSE {"ok"}

Picks(panel) == PicksOf(panel, PanelTargets(panel))

\* the last call of convert_panel, for the record
LastCall(panel, ct, r) ==
    [called |-> TRUE, d |-> n, p |-> pn + 1, panel |-> panel,
     pd |-> OldPanelDatasource(panel), templating |-> cur.templating,
     status |-> IF panel.hasTargets THEN ct.status ELSE "none",
     new_targets |-> ct.new_targets, raised |-> r.raised, out |-> r.panel]

\* the converter and the run after convert_panel answered r
PanelDone(panel, ctx, r) ==
    /\ todo' = Tail(todo)
    /\ pn' = pn + 1
    /\ cur' = [cur EXCEPT !.out = Append(@, r.panel)]
    /\ metric_to_objects' = r.index
    /\ group_by_labels' = r.group_by_labels
    /\ errors' = errors \o Stamp(r.errs, ctx)
    /\ last' = LastCall(panel, PanelTargets(panel), r)
    /\ pc' = IF r.raised \in {"ok", "ValueError"} THEN pc ELSE "exited"
    /\ stage' = IF r.raised \in {"ok", "ValueError"} THEN stage ELSE "Aborted"

\* the converter state convert_panel reads
ConverterState ==
    [templating |-> cur.templating, title |-> _current_dashboard, d |-> n,
     pn |-> pn + 1, group_by_labels |-> group_by_labels,
     index |-> metric_to_objects, mapped |-> Mapped(family)]

Init ==
    /\ pc = "idle"
    /\ family \in Families
    /\ n = 0
    /\ cur = [title |-> "", out |-> <<>>, templating |-> <<>>]
    /\ todo = <<>>
    /\ pn = 0
    /\ stage = "Idle"
    /\ inputs = <<>>
    /\ influx_dashboards = <<>>
    /\ invalid_dashboards = <<>>
    /\ metric_to_objects = <<>>
    /\ _get_rep_metric = <<>>
    /\ group_by_labels = <<>>
    /\ _current_dashboard = ""
    /\ errors = <<>>
    /\ context = [dashboard |-> "", uid |-> 0, panel |-> NoContextPanel]
    /\ last = NoLast
    /\ det = NoCall
    /\ qc = NoConversion

\* a plausible fault: convert_dashboard starts from an empty index
StartDashboard_reset ==
    /\ pc = "idle"
    /\ n < MaxDashboards
    /\ \E d \in DashboardPool(family, n + 1) :
        /\ inputs' = Append(inputs, d)
        /\ cur' = [title |-> d.title, out |-> <<>>, templating |-> d.templating]
        /\ todo' = DocPanels(d)
        /\ context' = [context EXCEPT !.dashboard = d.title, !.uid = n + 1]
        /\ _current_dashboard' = d.title
    /\ n' = n + 1
    /\ pn' = 0
    /\ stage' = "NotStarted"
    /\ pc' = "panels"
    /\ metric_to_objects' = <<>>
    /\ UNCHANGED <<family, influx_dashboards, invalid_dashboards,
                   _get_rep_metric, group_by_labels, errors, last, det, qc>>

\* convert_dashboards takes the next dashboard of its input and
\* convert_dashboard begins (main.py 266-274, converter 1182-1193)
StartDashboard ==
    /\ pc = "idle"
    /\ n < MaxDashboards
    /\ \E d \in DashboardPool(family, n + 1) :
        /\ inputs' = Append(inputs, d)
        /\ cur' = [title |-> d.title, out |-> <<>>, templating |-> d.templating]
        /\ todo' = DocPanels(d)
        /\ context' = [context EXCEPT !.dashboard = d.title, !.uid = n + 1]
        /\ _current_dashboard' = d.title
    /\ n' = n + 1
    /\ pn' = 0
    /\ stage' = "NotStarted"
    /\ pc' = "panels"
    /\ UNCHANGED <<family, influx_dashboards, invalid_dashboards, metric_to_objects,
                   _get_rep_metric, group_by_labels, errors, last, det, qc>>

\* one call of convert_panel (lines 1090-1176) on the next panel in document
\* order; an exception it lets through leaves convert_dashboard too and
\* reaches the `except Exception` of convert_dashboards: exit(1)
ConvertPanel ==
    /\ pc = "panels"
    /\ todo # <<>>
    /\ context' = [context EXCEPT !.panel = [d |-> n, id |-> Head(todo).id]]
    /\ IF Head(todo).type = "row"
       THEN /\ todo' = Head(todo).panels \o Tail(todo)
            /\ UNCHANGED <<pc, cur, pn, stage, metric_to_objects, group_by_labels,
                           errors, last>>
       ELSE \E pick \in Picks(Head(todo)) :
                PanelDone(Head(todo),
                          [context EXCEPT !.panel = [d |-> n, id |-> Head(todo).id]],
                          convert_panel(Head(todo), ConverterState, pick))
    /\ UNCHANGED <<family, n, inputs, influx_dashboards, invalid_dashboards,
                   _get_rep_metric, _current_dashboard, det, qc>>

\* a plausible fault: templating is converted while panels are still waiting
PanelsConverted_early ==
    /\ pc = "panels"
    /\ pc' = "templating"
    /\ stage' = "PanelsConverted"
    /\ UNCHANGED <<family, n, cur, todo, pn, inputs, influx_dashboards,
                   invalid_dashboards, metric_to_objects, _get_rep_metric,
                   group_by_labels, _current_dashboard, errors, context, last, det, qc>>

\* both loops of lines 1195-1198 are through: convert_dashboard fetches the
\* templating (line 1199)
PanelsConverted ==
    /\ pc = "panels"
    /\ todo = <<>>
    /\ pc' = "templating"
    /\ stage' = "PanelsConverted"
    /\ UNCHANGED <<family, n, cur, todo, pn, inputs, influx_dashboards,
                   invalid_dashboards, metric_to_objects, _get_rep_metric,
                   group_by_labels, _current_dashboard, errors, context, last, det, qc>>

\* convert_templating (lines 1200-1204); its ValueError becomes ConvertError,
\* which convert_dashboards answers (main.py 276-280) before it goes on
ConvertTemplating ==
    /\ pc = "templating"
    /\ LET r == convert_templating(cur.templating, n)
           ok == r.status = "ok"
           rep == [k \in 1..Len(r.rep) |->
                     [r.rep[k] EXCEPT !.i = IF ok THEN PosAfterDelete(@, r.to_be_deleted)
                                            ELSE @]]
       IN /\ cur' = [cur EXCEPT !.templating = r.list]
          /\ _get_rep_metric' = _get_rep_metric \o rep
          /\ errors' = errors \o Stamp(
                 IF ok THEN r.errs
                 ELSE r.errs \o <<Err("ERROR", "Error converting dashboard, skipping")>>,
                 context)
          /\ invalid_dashboards' = IF ok THEN invalid_dashboards
                                   ELSE Append(invalid_dashboards, cur.title)
          /\ pc' = IF ok THEN "backfill" ELSE "idle"
          /\ stage' = IF ok THEN "TemplatingConverted" ELSE "Invalid"
    /\ UNCHANGED <<family, n, todo, pn, inputs, influx_dashboards, metric_to_objects,
                   group_by_labels, _current_dashboard, context, last, det, qc>>

\* the back-fill pass (lines 1206-1208), the return of convert_dashboard and
\* influx_dashboards.append (main.py 275)
Backfill ==
    /\ pc = "backfill"
    /\ LET r == _update_label_values_metric(_get_rep_metric, _current_dashboard,
                    [index |-> metric_to_objects, vars |-> <<>>, errs |-> <<>>])
           mine == SelectSeq(r.vars, LAMBDA v : v.d = n)
       IN /\ metric_to_objects' = r.index
          /\ errors' = errors \o Stamp(r.errs, context)
          /\ cur' = [cur EXCEPT !.templating =
                        [i \in 1..Len(@) |->
                            IF \E k \in 1..Len(mine) : mine[k].i = i
                            THEN mine[CHOOSE k \in 1..Len(mine) : mine[k].i = i].var
                            ELSE @[i]]]
    /\ _get_rep_metric' = <<>>
    /\ influx_dashboards' = Append(influx_dashboards, n)
    /\ pc' = "idle"
    /\ stage' = "Done"
    /\ UNCHANGED <<family, n, todo, pn, inputs, invalid_dashboards, group_by_labels,
                   _current_dashboard, context, last, det, qc>>

\* the loop of convert_dashboards is through its input
FinishRun ==
    /\ pc = "idle"
    /\ n > 0
    /\ pc' = "finished"
    /\ UNCHANGED <<family, n, cur, todo, pn, stage, inputs, influx_dashboards,
                   invalid_dashboards, metric_to_objects, _get_rep_metric,
                   group_by_labels, _current_dashboard, errors, context, last, det, qc>>

Next ==
    \/ StartDashboard
    \/ ConvertPanel
    \/ PanelsConverted
    \/ ConvertTemplating
    \/ Backfill
    \/ FinishRun

Spec == Init /\ [][Next]_vars

----------------------------------------------------------------------------
(* SpecDetect: is_target_influx as a function of its arguments *)

UidPool ==
    { <<"InfluxUid">>, <<"$", "InfluxUid">>, <<"$", "{", "InfluxUid", "}">>,
      <<"FluxUid">>, <<"OtherUid">>, <<"NotInfluxDBUid">>,
      <<"InfluxDatasource">>, <<"FluxDatasource">>, <<"$", "dsvar">> }

TypePool == {"influxdb", "cloudwatch", "prometheus"}

DsPool ==
    {DsAbsent, DsNull}
    \cup {DsStr(u) : u \in UidPool}
    \cup {DsType(t) : t \in TypePool}
    \cup {DsUid(u) : u \in UidPool}
    \cup {DsDict(t, u) : t \in TypePool, u \in UidPool}

DetectTemplatingPool ==
    { <<>>,
      <<DsVar(<<"dsvar">>, "influxdb")>>,
      <<DsVar(<<"dsvar">>, "prometheus"), DsVar(<<"NotInfluxDBUid">>, "influxdb")>> }

InitDetect ==
    /\ \E dt \in {"", "influxdb"}, ds \in DsPool, tl \in DetectTemplatingPool,
       pd \in DsPool \ {DsNull} :
        det = [called |-> FALSE, dsType |-> dt, ds |-> ds, templating |-> tl,
               pd |-> pd, outcome |-> "none"]
    /\ pc = "detect"
    /\ family = 0
    /\ n = 0
    /\ cur = [title |-> "", out |-> <<>>, templating |-> <<>>]
    /\ todo = <<>>
    /\ pn = 0
    /\ stage = "Idle"
    /\ inputs = <<>>
    /\ influx_dashboards = <<>>
    /\ invalid_dashboards = <<>>
    /\ metric_to_objects = <<>>
    /\ _get_rep_metric = <<>>
    /\ group_by_labels = <<>>
    /\ _current_dashboard = ""
    /\ errors = <<>>
    /\ context = [dashboard |-> "", uid |-> 0, panel |-> NoContextPanel]
    /\ last = NoLast
    /\ qc = NoConversion

\* detector.is_target_influx(target, templating, panel_datasource)
Classify ==
    /\ ~det.called
    /\ det' = [det EXCEPT
                  !.called = TRUE,
                  !.outcome =
                      IF is_target_influx_raises(det.dsType, det.ds, det.templating, det.pd)
                      THEN "TypeError"
                      ELSE IF is_target_influx(det.dsType, det.ds, det.templating, det.pd)
                           THEN "true" ELSE "false"]
    /\ UNCHANGED <<runVars, qc>>

NextDetect == Classify

SpecDetect == InitDetect /\ [][NextDetect]_vars

----------------------------------------------------------------------------
(* SpecQuery: what convert_targets does for one accepted target, from the  *)
(* target to the converted target: convert_to_query for a structured       *)
(* target, then convert_query                                              *)

X == <<"x">>
Host == <<"host">>

\* WHERE clauses of a raw text: none but $timeFilter; "x" > 5; "x" > 0;
\* "x" != 5; "y" > 0; "host" = 'a'; "x" < 1 OR "x" > 5
ConditionPool ==
    { <<>>,
      <<Tag(X, ">", <<"5">>, TRUE, "")>>,
      <<Tag(X, ">", <<"0">>, TRUE, "")>>,
      <<Tag(X, "!=", <<"5">>, TRUE, "")>>,
      <<Tag(<<"y">>, ">", <<"0">>, TRUE, "")>>,
      <<Tag(Host, "=", <<"a">>, FALSE, "")>>,
      <<Tag(X, "<", <<"1">>, TRUE, ""), Tag(X, ">", <<"5">>, TRUE, "")>> }

Eq(key, value) == [key |-> key, value |-> value]

\* "host"='a' OR "host"='b'; the same with a third value; "host"='a' OR "dc"='b'
OrGroupPool ==
    { <<>>,
      <<Eq(Host, <<"a">>), Eq(Host, <<"b">>)>>,
      <<Eq(Host, <<"a">>), Eq(Host, <<"b">>), Eq(Host, <<"c">>)>>,
      <<Eq(Host, <<"a">>), Eq(<<"dc">>, <<"b">>)>> }

\* the raw texts SELECT f("x") FROM "m" [WHERE ...] [GROUP BY ...], with
\* divSelf the SELECT list is f("x")/f("x"), with mods a number is applied
\* (f("x") * 2, or f("x")*2/f("x")*2, which does_divide_by_self still
\* detects); a text without WHERE has no condition
RawQueryPool ==
    { [NoQuery EXCEPT
          !.fns = <<f>>, !.field = X, !.measurement = <<"m">>, !.hasWhere = w,
          !.tags = t, !.hasOr = (Len(t) = 2), !.window = win, !.groupTags = g,
          !.divSelf = ds, !.mods = md, !.orGroup = og, !.orParen = paren] :
        f \in {"count", "mean", "sum", "max"}, w \in BOOLEAN, t \in ConditionPool,
        win \in {NoWindow, W(5, "m"), W(0, "$__interval")}, g \in {<<>>, <<Host>>},
        ds \in BOOLEAN, md \in {<<>>, <<"* 2">>}, og \in OrGroupPool,
        paren \in BOOLEAN }

WellFormedText(q) ==
    /\ (~q.hasWhere => q.tags = <<>> /\ q.orGroup = <<>>)
    /\ (q.orGroup = <<>> => ~q.orParen)
    /\ (q.orGroup # <<>> => q.tags = <<>>)

\* the downsampling texts: an outer SUM or MAX around a plain inner select
SubQueryPool ==
    { [q EXCEPT !.sub = TRUE, !.outerFn = o] :
        q \in {r \in RawQueryPool :
                 /\ r.hasWhere /\ ~r.divSelf /\ r.mods = <<>> /\ r.orGroup = <<>>
                 /\ ~r.orParen /\ r.tags = <<>> /\ r.fns = <<"mean">>},
        o \in {"sum", "max"} }

\* the tags of a structured target: host = a OR host = b; with a third
\* value; host = a OR dc = b; host =~ /^a$/ OR host =~ /b/; host = a OR
\* host =~ /b/; host = a AND dc <> b
StructuredTagPool ==
    { <<>>,
      <<Tag(Host, "=", <<"a">>, TRUE, ""), Tag(Host, "=", <<"b">>, TRUE, "OR")>>,
      <<Tag(Host, "=", <<"a">>, TRUE, ""), Tag(Host, "=", <<"b">>, TRUE, "OR"),
        Tag(Host, "=", <<"c">>, TRUE, "OR")>>,
      <<Tag(Host, "=", <<"a">>, TRUE, ""), Tag(<<"dc">>, "=", <<"b">>, TRUE, "OR")>>,
      <<Tag(Host, "=~", <<"^", "a", "$">>, FALSE, ""), Tag(Host, "=~", <<"b">>, FALSE, "OR")>>,
      <<Tag(Host, "=", <<"a">>, TRUE, ""), Tag(Host, "=~", <<"b">>, FALSE, "OR")>>,
      <<Tag(Host, "=", <<"a">>, TRUE, ""), Tag(<<"dc">>, "<>", <<"b">>, TRUE, "AND")>> }

QueryTargetPool ==
    { [BlankTarget EXCEPT !.rawQuery = TRUE, !.query = q] :
        q \in {r \in RawQueryPool : WellFormedText(r)} \cup SubQueryPool }
    \cup
    { [Structured("A", <<"m">>, X, f, win) EXCEPT !.tags = t] :
        f \in {"mean", "count", "max", "last"}, win \in {NoWindow, W(5, "m")},
        t \in StructuredTagPool }

InitQuery ==
    /\ \E t \in QueryTargetPool : qc = [NoConversion EXCEPT !.target = t]
    /\ pc = "query"
    /\ family = 0
    /\ n = 0
    /\ cur = [title |-> "", out |-> <<>>, templating |-> <<>>]
    /\ todo = <<>>
    /\ pn = 0
    /\ stage = "Idle"
    /\ inputs = <<>>
    /\ influx_dashboards = <<>>
    /\ invalid_dashboards = <<>>
    /\ metric_to_objects = <<>>
    /\ _get_rep_metric = <<>>
    /\ group_by_labels = <<>>
    /\ _current_dashboard = ""
    /\ errors = <<>>
    /\ context = [dashboard |-> "", uid |-> 0, panel |-> NoContextPanel]
    /\ last = NoLast
    /\ det = NoCall

\* lines 1047-1070 for the one target: convert_to_query or the raw text,
\* then convert_query
ConvertQuery ==
    /\ ~qc.called
    /\ qc' = [qc EXCEPT
                 !.called = TRUE,
                 !.out = TargetConverted(qc.target, NoTargets(<<>>), TargetQuery(qc.target))]
    /\ UNCHANGED <<runVars, det>>

NextQuery == ConvertQuery

SpecQuery == InitQuery /\ [][NextQuery]_vars

----------------------------------------------------------------------------
(* Properties of the run *)

\* the stage changes a conversion can make
StageOrder ==
    { <<"Idle", "NotStarted">>, <<"NotStarted", "PanelsConverted">>,
      <<"PanelsConverted", "TemplatingConverted">>, <<"TemplatingConverted", "Done">>,
      <<"NotStarted", "Aborted">>, <<"PanelsConverted", "Invalid">>,
      <<"Done", "NotStarted">>, <<"Invalid", "NotStarted">> }

\* C1: in convert_dashboard every panel (top-level, under a row panel, under
\* legacy rows) is converted before the templating is touched, the back-fill
\* runs only after the templating is converted, and the stages NotStarted,
\* PanelsConverted, TemplatingConverted, Done follow one another with none
\* skipped or reversed.
C1_PanelsThenTemplatingThenBackfill ==
    [][ /\ (stage' # stage => <<stage, stage'>> \in StageOrder)
        /\ (pc # "idle" /\ cur'.templating # cur.templating =>
               /\ todo = <<>>
               /\ [k \in 1..Len(cur.out) |-> cur.out[k].id]
                    = [k \in 1..Len(AllPanels(DocPanels(inputs[n]))) |->
                          AllPanels(DocPanels(inputs[n]))[k].id]
               /\ stage \in {"PanelsConverted", "TemplatingConverted"})
        /\ (pc # "idle" /\ (_get_rep_metric # <<>> /\ _get_rep_metric' = <<>>) =>
               stage = "TemplatingConverted")
        /\ (stage' = "Done" /\ stage # "Done" => stage = "TemplatingConverted")
      ]_vars

\* a dashboard with a row panel and a legacy row went through all four stages
C1_Witness ==
    /\ stage = "Done"
    /\ inputs[n].rows # <<>>
    /\ \E k \in 1..Len(inputs[n].panels) : inputs[n].panels[k].type = "row"
    /\ Len(cur.out) = 2
    /\ cur.templating # inputs[n].templating

\* C2: whatever fails while a panel's targets or alert are converted is
\* caught inside convert_panel: no exception leaves it, the panel has lost
\* "targets" and "alert", and the conversion of the dashboard goes on.
C2_FailureStaysInPanel ==
    last.called /\ last.raised # "ok" =>
        /\ last.raised = "ValueError"
        /\ ~last.out.hasTargets
        /\ ~last.out.hasAlert
        /\ pc # "exited"

\* the templating has a variable convert_templating cannot convert: a query
\* of no known discovery shape, or a variable of an unknown kind
UnconvertibleTemplating(list) ==
    \E i \in 1..Len(list) :
        \/ list[i].type = "query" /\ list[i].query.shape = "text"
        \/ list[i].type \notin {"query", "custom", "interval", "datasource"}

\* C3: when convert_templating fails, the dashboard's title goes to the
\* invalid list, the dashboard does not go to the converted list, and
\* convert_dashboards is back at its loop for the next dashboard.
C3_TemplatingFailureInvalidates ==
    [][ pc = "templating" /\ UnconvertibleTemplating(cur.templating) =>
            /\ invalid_dashboards' = Append(invalid_dashboards, cur.title)
            /\ influx_dashboards' = influx_dashboards
            /\ pc' = "idle"
      ]_vars

\* the first dashboard was invalid and the second one was converted after it
C3_Witness ==
    /\ n = 2
    /\ stage = "Done"
    /\ UnconvertibleTemplating(inputs[1].templating)
    /\ invalid_dashboards = <<"A">>
    /\ influx_dashboards = <<2>>

\* C4: no failure while one dashboard is converted keeps convert_dashboards
\* from the dashboards after it, and when the run ends every dashboard it
\* was given is in the converted list or in the invalid list.
C4_EveryDashboardSettled ==
    /\ pc # "exited"
    /\ (pc = "finished" => Len(influx_dashboards) + Len(invalid_dashboards) = n)

\* the classifier answers false for the target
Rejected(target, templating, pd) ==
    /\ ~is_target_influx_raises(target.dsType, target.datasource, templating, pd)
    /\ ~is_target_influx(target.dsType, target.datasource, templating, pd)

\* the target an index entry of kind "target" was filed for
FiledFor(e) == AllPanels(DocPanels(inputs[e.d]))[e.p].targets[e.i]

IndexEntries ==
    UNION { UNION { SeqToSet(metric_to_objects[k].by[j].objs) :
                      j \in 1..Len(metric_to_objects[k].by) } :
              k \in 1..Len(metric_to_objects) }

\* C5: a target the classifier rejects comes out of convert_targets at the
\* same position, equal to the input but for the flag 'not-influx-target',
\* and the index never holds an entry filed for such a target.
C5_RejectedPassThrough ==
    /\ (last.called /\ last.status = "ok" =>
           /\ Len(last.new_targets) = Len(last.panel.targets)
           /\ \A i \in 1..Len(last.panel.targets) :
                 Rejected(last.panel.targets[i], last.templating, last.pd) =>
                     last.new_targets[i] = [last.panel.targets[i] EXCEPT !.flag = "true"])
    /\ \A e \in IndexEntries :
           e.kind = "target" =>
               ~Rejected(FiledFor(e), inputs[e.d].templating,
                         OldPanelDatasource(AllPanels(DocPanels(inputs[e.d]))[e.p]))

\* a panel with a rejected, so far unflagged target next to an accepted one,
\* which the index now holds
C5_Witness ==
    /\ last.called
    /\ last.status = "ok"
    /\ \E i \in 1..Len(last.panel.targets) :
          /\ Rejected(last.panel.targets[i], last.templating, last.pd)
          /\ last.panel.targets[i].flag = "absent"
    /\ \E e \in IndexEntries : e.kind = "target" /\ e.d = last.d /\ e.p = last.p

\* C6: a target that already carries 'not-influx-target' comes out of
\* convert_targets as it went in and no error is raised, structured or raw,
\* whatever the classifier answers.
C6_FlaggedIsNoOp ==
    last.called =>
        \A i \in 1..Len(last.panel.targets) :
            last.panel.targets[i].flag = "true" =>
                /\ last.status = "ok"
                /\ last.new_targets[i] = last.panel.targets[i]

\* the discovery variables of a templating list that name a measurement
Discoveries(list) ==
    {i \in 1..Len(list) :
        list[i].type = "query" /\ list[i].query.shape \in {"from_key", "from_regex_key"}}

\* C9: after a successful convert_dashboard, for a discovery variable that
\* resolves to measurement M, every index key of the dashboard with prefix
\* M holds the variable's entry, and the variable's query names a concrete
\* metric instead of M.
C9_BackfillEveryKey ==
    stage = "Done" =>
        \A j \in Discoveries(inputs[n].templating) :
            LET v == inputs[n].templating[j]
                M == _replace_invalid_metric_characters(v.query.tag)
            IN \A k \in 1..Len(metric_to_objects) :
                   LET key == metric_to_objects[k].metric IN
                   HasPrefix(key, M \o <<"_">>) /\ IndexHas(metric_to_objects, key, cur.title) =>
                       /\ \E e \in SeqToSet(IndexList(metric_to_objects, key, cur.title)) :
                              e.kind = "var" /\ e.d = n /\ e.obj.name = v.name
                       /\ \E i \in 1..Len(cur.templating) :
                              /\ cur.templating[i].name = v.name
                              /\ cur.templating[i].query.tag # M

\* C10 as stated: convert_dashboard starts on an index that holds nothing of
\* an earlier dashboard.
C10_IndexEmptyAtStart ==
    [][pc = "idle" /\ pc' = "panels" => metric_to_objects = <<>>]_vars

\* C10: the index belongs to the converter for the whole run: starting
\* convert_dashboard on the next dashboard leaves every entry in place.
C10_IndexKeptAcrossDashboards ==
    [][pc = "idle" /\ pc' = "panels" => metric_to_objects' = metric_to_objects]_vars

\* the second dashboard starts while the index holds entries of the first
C10_Witness ==
    /\ n = 2
    /\ pc = "panels"
    /\ pn = 0
    /\ \E e \in IndexEntries : e.d = 1

IsPrefix(s, t) == Len(s) <= Len(t) /\ SubSeq(t, 1, Len(s)) = s

\* C11: whatever step the run takes, every metric key and every dashboard
\* title of the index stays where it is, and the list filed under each
\* (metric, title) is a prefix of the list filed there afterwards: entries
\* are only appended at the end, none is removed, moved or replaced, and the
\* content of an entry stays as it was filed.
C11_IndexListsOnlyGrow ==
    [][ /\ Len(metric_to_objects) <= Len(metric_to_objects')
        /\ \A k \in 1..Len(metric_to_objects) :
              /\ metric_to_objects'[k].metric = metric_to_objects[k].metric
              /\ Len(metric_to_objects[k].by) <= Len(metric_to_objects'[k].by)
              /\ \A j \in 1..Len(metric_to_objects[k].by) :
                    /\ metric_to_objects'[k].by[j].title = metric_to_objects[k].by[j].title
                    /\ IsPrefix(metric_to_objects[k].by[j].objs,
                                metric_to_objects'[k].by[j].objs)
      ]_vars

\* one list of the index holds the targets of two panels and, after them,
\* a template variable the back-fill filed
C11_Witness ==
    /\ stage = "Done"
    /\ \E k \in 1..Len(metric_to_objects) :
          \E j \in 1..Len(metric_to_objects[k].by) :
             LET objs == metric_to_objects[k].by[j].objs IN
             /\ Len(objs) >= 3
             /\ objs[1].kind = "target"
             /\ \E i \in 2..(Len(objs) - 1) : objs[i].kind = "target" /\ objs[i].p # objs[1].p
             /\ objs[Len(objs)].kind = "var"

\* the alert names a notification neither table of the converter maps
Unmapped(alert) ==
    \E k \in 1..Len(alert.notifications) : NewUid(alert.notifications[k]) = ""

\* C12: when both notification tables are set and the alert of a panel names
\* a notification neither of them maps, the targets convert_targets made stay
\* in the panel and an ERROR is recorded for the panel.
C12_AlertFailureKeepsTargets ==
    /\ last.called
    /\ last.panel.hasAlert
    /\ Mapped(family)
    /\ Unmapped(last.panel.alert)
    /\ last.status = "ok"
    => /\ last.out.hasTargets
       /\ last.out.targets = last.new_targets
       /\ \E k \in 1..Len(errors) :
             /\ errors[k].level = "ERROR"
             /\ errors[k].panel = [d |-> last.d, id |-> last.panel.id]

----------------------------------------------------------------------------
(* Properties of the classifier *)

\* the four checks of one datasource reference
FourChecks(dsType, ds, templating) ==
    \/ dsType = "influxdb"
    \/ (ds.kind = "dict" /\ ds.hasType /\ ds.type = "influxdb")
    \/ _influxdb_like_by_uid(normalize_target_uid(ds))
    \/ _uid_matches_influx_templating(ds, templating)
    \/ (ds.kind = "str" /\ _influxdb_like_by_ds_name(ds.uid))
    \/ _influxdb_like_by_ds_name(normalize_target_uid(ds))

\* C7: is_target_influx answers true exactly when one of the four checks
\* holds for the target or, none holding and a panel-level datasource being
\* given, for the panel-level datasource; it answers false otherwise.
C7_TrueExactlyOnSignal ==
    det.called =>
        /\ det.outcome \in {"true", "false"}
        /\ det.outcome = "true" <=>
              \/ FourChecks(det.dsType, det.ds, det.templating)
              \/ (PanelDsGiven(det.pd) /\ FourChecks("", det.pd, det.templating))

\* the reference resolves in the registry, by UID or by name, to a Flux datasource
ResolvesToFlux(ds) ==
    \E d \in grafana_datasources :
        /\ d.version = "Flux"
        /\ \/ d.uid = normalize_target_uid(ds)
           \/ d.name = normalize_target_uid(ds)
           \/ (ds.kind = "str" /\ d.name = ds.uid)

\* C8: a target whose datasource resolves to a Flux datasource is never
\* classified as an InfluxQL target.
C8_FluxNeverAccepted ==
    det.called /\ ResolvesToFlux(det.ds) => det.outcome # "true"

----------------------------------------------------------------------------
(* Properties of the query conversion *)

\* the text has count as its one aggregation and a GROUP BY time window
OnlyCountWithWindow(t) ==
    /\ t.rawQuery
    /\ ~t.query.sub
    /\ ~t.query.divSelf
    /\ t.query.fns = <<"count">>
    /\ t.query.window # NoWindow

\* the WHERE clause of the text compares the selected field with a value
ValueFilter(q) == \E k \in 1..Len(q.tags) : q.tags[k].key = q.field

\* C13: a query whose only aggregation is count, with a GROUP BY time window,
\* is rendered as sum(count_over_time(metric[window])) when it has no filter
\* condition on the value, and as a plain count(...) with neither sum nor
\* count_over_time whenever it has one.
C13_CountPromotion ==
    qc.called /\ OnlyCountWithWindow(qc.target) =>
        /\ qc.out.status = "ok"
        /\ Len(qc.out.new_targets) = 1
        /\ \A k \in 1..Len(qc.out.new_targets[1].expr) :
              IF ValueFilter(qc.target.query)
              THEN /\ qc.out.new_targets[1].expr[k].agg = "count"
                   /\ qc.out.new_targets[1].expr[k].fns = {}
              ELSE /\ qc.out.new_targets[1].expr[k].agg = "sum"
                   /\ qc.out.new_targets[1].expr[k].fns = {"count_over_time"}
                   /\ qc.out.new_targets[1].expr[k].bracket # NoWindow

\* the text is one plain select that does_divide_by_self detects
DivideBySelfText(t) ==
    /\ t.rawQuery
    /\ ~t.query.sub
    /\ does_divide_by_self(t.query)

\* C14: convert_expression fails for every query that is detected as
\* divide-by-self and has at least one condition on the value or an
\* arithmetic modification; it returns no expression for such a query.
C14_DivideBySelfCombination ==
    /\ qc.called
    /\ DivideBySelfText(qc.target)
    /\ (ValueFilter(qc.target.query) \/ get_modifications(qc.target.query) # <<>>)
    => /\ qc.out.status # "ok"
       /\ qc.out.new_targets = <<>>

\* the WHERE clause of the text has one comparison with a number
OneComparison(q) ==
    /\ Len(q.tags) = 1
    /\ q.tags[1].numeric
    /\ q.tags[1].op \in {"<", ">", "<=", ">=", "!="}

\* the comparison a divide-by-self text is to be rendered with
BoolComparison(q) ==
    IF q.tags = <<>>
    THEN [op |-> "!=", value |-> <<"0">>, bool |-> TRUE]
    ELSE [op |-> q.tags[1].op, value |-> q.tags[1].value, bool |-> TRUE]

\* C15: a divide-by-self query with one comparison condition, or with none,
\* converts successfully, and its comparison (the given one, or != 0 when
\* none is given) is rendered in the boolean form 'op bool value'.
C15_DivideBySelfBool ==
    /\ qc.called
    /\ DivideBySelfText(qc.target)
    /\ qc.target.query.hasWhere
    /\ get_modifications(qc.target.query) = <<>>
    /\ (qc.target.query.tags = <<>> \/ OneComparison(qc.target.query))
    => /\ qc.out.status = "ok"
       /\ Len(qc.out.new_targets) = 1
       /\ \A k \in 1..Len(qc.out.new_targets[1].expr) :
             qc.out.new_targets[1].expr[k].cond = <<BoolComparison(qc.target.query)>>

\* the OR group of tag equalities of a target, as [key, value] pairs in input
\* order: of a structured target all its tags, when they are equalities
\* joined by OR, of a raw text the group of its WHERE clause
EqualityOrGroup(t) ==
    IF t.rawQuery
    THEN IF t.query.hasWhere /\ ~t.query.sub /\ ~t.query.divSelf THEN t.query.orGroup ELSE <<>>
    ELSE IF /\ Len(t.tags) >= 2
            /\ AllOperator(t.tags, "=")
            /\ \A i \in 2..Len(t.tags) : t.tags[i].condition = "OR"
         THEN [i \in 1..Len(t.tags) |-> Eq(t.tags[i].key, t.tags[i].value)]
         ELSE <<>>

\* the one label key=~"v1|v2|..." of a group
Alternation(group) ==
    [key |-> group[1].key, op |-> "=~",
     value |-> JoinAlt([i \in 1..Len(group) |-> group[i].value])]

\* C16: an OR group of tag equalities that share one key is translated into
\* the single label filter key=~"v1|v2|..." with the alternatives in input
\* order, and an OR group with different keys makes the translation fail,
\* for structured targets and for raw query texts.
C16_OrGroupUnified ==
    qc.called /\ EqualityOrGroup(qc.target) # <<>> =>
        IF SameKey(EqualityOrGroup(qc.target))
        THEN /\ qc.out.status = "ok"
             /\ Len(qc.out.new_targets) = 1
             /\ \A k \in 1..Len(qc.out.new_targets[1].expr) :
                   {l \in qc.out.new_targets[1].expr[k].labels :
                       l.key = EqualityOrGroup(qc.target)[1].key}
                   = {Alternation(EqualityOrGroup(qc.target))}
        ELSE /\ qc.out.status # "ok"
             /\ qc.out.new_targets = <<>>

\* the text has the downsampling shape SELECT SUM(...) FROM ( inner select
\* GROUP BY ... ) GROUP BY ...
DownsamplingText(t) ==
    /\ t.rawQuery
    /\ t.query.sub
    /\ t.query.outerFn = "sum"
    /\ HasGroupBy(t.query)

\* C17: a raw query of the downsampling shape is converted successfully:
\* convert_query returns a target, with the expression made from the inner
\* select, and nothing is raised that would cost the panel its targets.
C17_SubqueryConverted ==
    qc.called /\ DownsamplingText(qc.target) =>
        /\ qc.out.status = "ok"
        /\ Len(qc.out.new_targets) = 1
        /\ qc.out.new_targets[1].expr # NoExpr

\* the aggregation names of the mapping table that the target applies to its
\* field: the select items of a structured target, the functions of the
\* SELECT clause of a raw query
AppliedAggregations(t) ==
    IF t.rawQuery
    THEN {f \in SeqToSet(t.query.fns) : f \in DOMAIN AGGREGATION_MAP}
    ELSE {it.type : it \in {i \in SeqToSet(FlattenRows(t.select)) :
                               i.type \in DOMAIN AGGREGATION_MAP}}

\* C23: every aggregation of the mapping table that a converted target applies
\* to its field, in a select item or in the SELECT clause of its raw query, is
\* among the aggregations the expression builder gets, as its mapped
\* destination (max as max, last as avg).
C23_AggregationsMapped ==
    qc.called /\ ~qc.target.query.sub /\ qc.out.status = "ok" =>
        \A f \in AppliedAggregations(qc.target) :
            AGGREGATION_MAP[f] \in SeqToSet(get_aggregations(TargetQuery(qc.target).value))

----------------------------------------------------------------------------
(* Properties of the templating *)

\* a variable of type "query" whose text has one of the three discovery
\* shapes that convert_templating rewrites
Convertible(v) ==
    /\ v.type = "query"
    /\ v.query.shape \in {"from_key", "key", "from_regex_key"}

\* a variable of type "query" with the deprecated SHOW FIELD KEYS text
FieldKeys(v) == v.type = "query" /\ v.query.shape = "show_field_keys"

PassesThrough(v) == v.type \in {"custom", "interval", "datasource"}

\* the positions of the SHOW FIELD KEYS variables of a list
FieldKeysAt(list) == {i \in 1..Len(list) : FieldKeys(list[i])}

\* convert_templating has to fail on the list
Inconvertible(list) ==
    \E i \in 1..Len(list) :
        ~(Convertible(list[i]) \/ FieldKeys(list[i]) \/ PassesThrough(list[i]))

\* C18: convert_templating rewrites the query and the definition of every
\* variable of type "query" with a recognized discovery shape to a
\* label_values(...) call, leaves every variable of type "custom", "interval"
\* or "datasource" unchanged, and fails for a variable of any other type and
\* for a "query" variable with an unrecognized discovery shape.
C18_TemplatingByKind ==
    [][ pc = "templating" =>
          IF Inconvertible(cur.templating)
          THEN /\ stage' = "Invalid"
               /\ invalid_dashboards' = Append(invalid_dashboards, cur.title)
          ELSE /\ stage' = "TemplatingConverted"
               /\ \A i \in 1..Len(cur.templating) \ FieldKeysAt(cur.templating) :
                     /\ cur'.templating[PosAfterDelete(i, FieldKeysAt(cur.templating))].name
                           = cur.templating[i].name
                     /\ Convertible(cur.templating[i]) =>
                           /\ cur'.templating[PosAfterDelete(i, FieldKeysAt(cur.templating))].query.shape
                                 = "label_values"
                           /\ cur'.templating[PosAfterDelete(i, FieldKeysAt(cur.templating))].definition
                                 = cur'.templating[PosAfterDelete(i, FieldKeysAt(cur.templating))].query
                     /\ PassesThrough(cur.templating[i]) =>
                           cur'.templating[PosAfterDelete(i, FieldKeysAt(cur.templating))]
                             = cur.templating[i]
      ]_vars

\* a templating converted with success that holds a rewritten variable next
\* to one that passed through
C18_Witness ==
    /\ stage = "TemplatingConverted"
    /\ \E i, j \in 1..Len(cur.templating) :
          /\ cur.templating[i].type = "query"
          /\ cur.templating[i].query.shape = "label_values"
          /\ cur.templating[i].definition = cur.templating[i].query
          /\ cur.templating[j].type \in {"custom", "interval", "datasource"}
          /\ cur.templating[j] \in {V_custom, V_interval}

\* C20: after convert_templating succeeds the template list holds exactly
\* the original variables minus those whose discovery query is a SHOW FIELD
\* KEYS query, in their original relative order; no other variable is
\* removed and none is added.
C20_OnlyFieldKeysDropped ==
    [][ pc = "templating" /\ stage' = "TemplatingConverted" =>
          /\ Len(cur'.templating)
                = Len(cur.templating) - Cardinality(FieldKeysAt(cur.templating))
          /\ \A i \in 1..Len(cur.templating) \ FieldKeysAt(cur.templating) :
                cur'.templating[PosAfterDelete(i, FieldKeysAt(cur.templating))].name
                  = cur.templating[i].name
          /\ \A j \in 1..Len(cur'.templating) :
                \A i \in FieldKeysAt(cur.templating) :
                    cur'.templating[j].name # cur.templating[i].name
      ]_vars

\* the templating of the dashboard was <<V_fields, V_cpu, V_custom>> and is,
\* converted, the two other variables in their order
C20_Witness ==
    /\ stage = "TemplatingConverted"
    /\ inputs[n].templating = <<V_fields, V_cpu, V_custom>>
    /\ Len(cur.templating) = 2
    /\ cur.templating[1].name = V_cpu.name
    /\ cur.templating[2] = V_custom

----------------------------------------------------------------------------
(* Properties of the targets of a panel *)

\* C19: for a panel converted without failure the new target list has the
\* length and the order of the old one, and each converted target carries the
\* old target's refId and result format, instant = true exactly when the
\* format is "table", intervalFactor 1, and the key "hide" exactly when the
\* old target had it, with the old value.
C19_TargetsKeepShape ==
    last.called /\ last.status = "ok" /\ last.raised = "ok" =>
        /\ last.out.targets = last.new_targets
        /\ Len(last.new_targets) = Len(last.panel.targets)
        /\ \A i \in 1..Len(last.panel.targets) :
              ~Rejected(last.panel.targets[i], last.templating, last.pd) =>
                 /\ last.new_targets[i].kind = "prom"
                 /\ last.new_targets[i].refId = last.panel.targets[i].refId
                 /\ last.new_targets[i].resultFormat = last.panel.targets[i].resultFormat
                 /\ last.new_targets[i].instant
                       <=> last.panel.targets[i].resultFormat = "table"
                 /\ last.new_targets[i].intervalFactor = 1
                 /\ last.new_targets[i].hasHide = last.panel.targets[i].hasHide
                 /\ last.panel.targets[i].hasHide =>
                       last.new_targets[i].hide = last.panel.targets[i].hide

\* a converted panel with a hidden table target after a time-series target
C19_Witness ==
    /\ last.called
    /\ last.status = "ok"
    /\ last.raised = "ok"
    /\ \E i, j \in 1..Len(last.new_targets) :
          /\ i < j
          /\ last.new_targets[i].kind = "prom"
          /\ ~last.new_targets[i].instant
          /\ ~last.new_targets[i].hasHide
          /\ last.panel.targets[j].resultFormat = "table"
          /\ last.new_targets[j].instant
          /\ last.new_targets[j].hasHide
          /\ last.new_targets[j].hide

----------------------------------------------------------------------------
(* Properties of the panel *)

\* the windows of a list that are durations, not placeholders
ConcreteWindows(over_times) ==
    {w \in SeqToSet(over_times) : w.unit \in {"ms", "s", "m", "h", "d", "w", "y"}}

\* the interval of the converted panel out is what the windows over_times
\* of the targets of panel ask for
IntervalAsInferred(panel, over_times, out) ==
    IF panel.interval # NoWindow THEN out.interval = panel.interval
    ELSE IF \/ ConcreteWindows(over_times) = {}
            \/ W(0, "$__range") \in SeqToSet(over_times)
            \/ \A w \in ConcreteWindows(over_times) :
                  _duration_to_seconds(w) <= SCRAPE_INTERVAL_SECONDS
         THEN out.interval = NoWindow
         ELSE /\ out.interval # NoWindow
              /\ \A w \in ConcreteWindows(over_times) :
                    _duration_to_seconds(w) <= _duration_to_seconds(out.interval)
              /\ \E w \in ConcreteWindows(over_times) :
                    _duration_to_seconds(w) = _duration_to_seconds(out.interval)

\* C21: a panel converted without failure that has no interval of its own
\* gets the largest concrete window of its targets as interval, unless none
\* is left, $__range is among the windows or the largest is the scrape
\* interval; a panel with an interval keeps it; and no window token makes
\* the conversion of the dashboard abort.
C21_IntervalInferred ==
    [][ /\ pc = "panels"
        /\ todo # <<>>
        /\ Head(todo).type # "row"
        /\ Head(todo).hasTargets
        /\ PanelTargets(Head(todo)).status = "ok"
        => /\ last'.raised \in {"ok", "ValueError"}
           /\ pc' # "exited"
           /\ last'.raised = "ok" =>
                 IntervalAsInferred(Head(todo), PanelTargets(Head(todo)).over_times, last'.out)
      ]_vars

----------------------------------------------------------------------------
(* Properties of the index *)

\* the places of the list filed under (metric, title) that hold the entry of
\* target i of panel pord of dashboard d
PlacesOf(metric, title, d, pord, i) ==
    LET list == IndexList(metric_to_objects, metric, title) IN
    {k \in 1..Len(list) :
        /\ list[k].kind = "target" /\ list[k].d = d /\ list[k].p = pord /\ list[k].i = i}

\* the source-system targets of the panel convert_panel converted last
ConvertedTargets ==
    {i \in 1..Len(last.panel.targets) :
        /\ ~is_target_influx_raises(last.panel.targets[i].dsType,
                                    last.panel.targets[i].datasource, last.templating, last.pd)
        /\ is_target_influx(last.panel.targets[i].dsType,
                            last.panel.targets[i].datasource, last.templating, last.pd)}

\* C24: after a panel is converted, each of its converted source-system
\* targets stands exactly once in the list of the index for its metric name
\* and the title of the dashboard, however many targets of the dashboard
\* have that metric.
C24_FiledExactlyOnce ==
    last.called /\ last.raised = "ok" /\ last.panel.hasTargets =>
        \A i \in ConvertedTargets :
            Cardinality(PlacesOf(IndexMetricName(last.panel.targets[i]).value,
                                 inputs[last.d].title, last.d, last.p, i)) = 1

\* C25: for every converted source-system target, raw or structured, the
\* metric name it is filed under in the index is the metric name of its
\* converted expression.
C25_FiledUnderExpressionMetric ==
    last.called /\ last.raised = "ok" /\ last.panel.hasTargets =>
        \A i \in ConvertedTargets :
            \A k \in 1..Len(last.new_targets[i].expr) :
                last.new_targets[i].expr[k].metric = IndexMetricName(last.panel.targets[i]).value

\* C26: when convert_dashboard has returned, every target entry the index
\* holds for the dashboard is a target that one of the converted panels of
\* the dashboard still has; a panel that lost its targets because its
\* conversion failed has no entry.
C26_EntriesAreTargetsOfPanels ==
    stage = "Done" =>
        \A e \in IndexEntries :
            e.kind = "target" /\ e.d = n =>
                /\ e.p \in 1..Len(cur.out)
                /\ cur.out[e.p].hasTargets
                /\ e.i \in 1..Len(cur.out[e.p].targets)
                /\ cur.out[e.p].targets[e.i] = e.obj

\* C27: the list of pending back-fills is empty whenever convert_dashboard
\* starts, also after a dashboard whose templating failed, and every template
\* variable the back-fill files in the index is filed under the title of the
\* dashboard it belongs to.
C27_BackfillStaysInDashboard ==
    /\ (stage = "NotStarted" => _get_rep_metric = <<>>)
    /\ \A k \in 1..Len(metric_to_objects) :
          \A j \in 1..Len(metric_to_objects[k].by) :
             \A e \in SeqToSet(metric_to_objects[k].by[j].objs) :
                e.kind = "var" => metric_to_objects[k].by[j].title = inputs[e.d].title

----------------------------------------------------------------------------
(* Properties of targets of other systems *)

\* the target declares a datasource of another type than influxdb, with a
\* uid that is no key of the registry
DeclaresOtherSystem(t) ==
    /\ t.dsType # "influxdb"
    /\ t.datasource.kind = "dict"
    /\ t.datasource.hasType /\ t.datasource.type # "influxdb"
    /\ t.datasource.hasUid
    /\ \A d \in grafana_datasources : d.uid # normalize_target_uid(t.datasource)

\* C29: a target that declares a datasource of another type (cloudwatch,
\* prometheus) with a uid the registry does not know is rejected by the
\* classifier and comes out of the panel untranslated, also when the panel
\* has a datasource of type influxdb or none.
C29_OtherSystemNeverTranslated ==
    last.called /\ last.status = "ok" =>
        \A i \in 1..Len(last.panel.targets) :
            DeclaresOtherSystem(last.panel.targets[i]) =>
                /\ Rejected(last.panel.targets[i], last.templating, last.pd)
                /\ last.new_targets[i] = PassThrough(last.panel.targets[i])

\* C30: converting a panel none of whose targets is a source-system target
\* changes nothing of the panel but its targets, each of which gets the
\* pass-through flag: datasource, interval and nullPointMode stay.
C30_ForeignPanelUntouched ==
    /\ last.called
    /\ last.panel.hasTargets
    /\ \A i \in 1..Len(last.panel.targets) :
          Rejected(last.panel.targets[i], last.templating, last.pd)
    => /\ last.raised = "ok"
       /\ last.out.datasource = last.panel.datasource
       /\ last.out.interval = last.panel.interval
       /\ last.out.nullPointMode = last.panel.nullPointMode
       /\ last.out = [last.panel EXCEPT !.targets =
                        [i \in 1..Len(last.panel.targets) |-> PassThrough(last.panel.targets[i])]]

----------------------------------------------------------------------------
(* Properties of the legend *)

\* the group-by labels of the target's own query
OwnLabels(t) ==
    IF HasGroupBy(TargetQuery(t).value) THEN TargetQuery(t).value.groupTags ELSE <<>>

\* C28: the legend of a converted target that has no alias is made of the
\* group-by labels of that target's own query, not of the labels an earlier
\* target of this or another panel or dashboard left in the converter.
C28_LegendFromOwnLabels ==
    last.called /\ last.status = "ok" =>
        \A i \in ConvertedTargets :
            last.panel.targets[i].alias = <<>> /\ last.panel.targets[i].flag # "true" =>
                last.new_targets[i].legendFormat =
                    _replace_invalid_metric_characters_legend(
                        get_legend_format(last.panel.targets[i],
                                          OwnLabels(last.panel.targets[i])))

----------------------------------------------------------------------------
(* Properties of the error sink *)

\* C22: the panel stored in a recorded error is always a panel of the
\* dashboard stored in the same error, over any sequence of dashboards and
\* panels.
C22_ErrorPanelOfDashboard ==
    \A k \in 1..Len(errors) :
        /\ errors[k].uid \in 1..Len(inputs)
        /\ errors[k].dashboard = inputs[errors[k].uid].title
        /\ errors[k].panel.d = errors[k].uid
        /\ \E i \in 1..Len(DocPanels(inputs[errors[k].uid])) :
              \/ DocPanels(inputs[errors[k].uid])[i].id = errors[k].panel.id
              \/ \E j \in 1..Len(DocPanels(inputs[errors[k].uid])[i].panels) :
                    DocPanels(inputs[errors[k].uid])[i].panels[j].id = errors[k].panel.id

====
